---- MODULE Spec2Model ----
(***************************************************************************)
(* Terrain synthesis of the flight simulator: the square-diamond           *)
(* generator with edge constraints (terrain-generation.js) and the chunk   *)
(* store that grows around the aircraft (flight-sim.js).                   *)
(*                                                                         *)
(* Numbers.  Heights are JavaScript numbers.  The model keeps the integer  *)
(* valued ones: an integer stands for itself, a division rounds down to    *)
(* the next integer (JavaScript rounds to the next double), and the two    *)
(* non-numbers the code can meet, NaN and undefined, are two reserved      *)
(* values.  A Float32Array cell holds a float32: every integer up to 2^24  *)
(* in magnitude, and beyond that only every 2nd, 4th, ... integer.         *)
(*                                                                         *)
(* Objects.  Arrays are objects of a heap, named by their index in it, so  *)
(* that an array handed to the generator is the caller's array and not a   *)
(* copy of it.  A heightfield is the tuple of its rows' references.        *)
(***************************************************************************)
EXTENDS Integers, Sequences, FiniteSets, TLC

(* Bounds of the model *)

\* Math.random() takes the values 0/RandLevels .. (RandLevels-1)/RandLevels.
RandLevels == 4

\* The states Math.random may start in.
NumSeeds == 2

\* generateTerrain is called on its own with detail -1 .. MaxDetail,
MaxDetail == 2

\* and with each constraint null or one of NumVecs vectors.
NumVecs == 2

\* Chunks are generated with this detail, (2^ChunkDetail + 1) cells a side
\* (flight-sim.js:79 passes 5).
ChunkDetail == 1

\* Animation frames run.
MaxFrames == 2

\* The aircraft is at multiples -1 .. MaxPos of PosUnit on each axis.
MaxPos == 3

\* World units between two places the aircraft is seen at.
PosUnit == 1500

VARIABLES
    heap,          \* the arrays alive: <<[kind, elems]>>, an array's reference is its index
    chunkHeights,  \* flight-sim.js:33, key <<x, y>> -> heightfield (tuple of row references)
    meshes,        \* the terrain meshes SCENE holds, in the order they were added
    rng,           \* the state of the engine's Math.random generator
    AIRCRAFT,      \* flight-sim.js:42, "unset" | "mtl" | "loaded": how far the load has come
    todo,          \* generateNeighboringChunks: the coordinates its loop has still to request
    last,          \* the last addTerrainChunk call: what it was asked, found and passed on
    frame,         \* the last animation frame: its number, where the aircraft was, the chunk requested
    gen,           \* the generator exercised on its own: the last call's arguments and result
    run,           \* one call of generateTerrain followed statement by statement
    tick           \* flips whenever a statement of the followed call is executed

vars == <<heap, chunkHeights, meshes, rng, AIRCRAFT, todo, last, frame, gen, run, tick>>

----------------------------------------------------------------------------
(* JavaScript numbers *)

\* The value of a NaN cell; no height reaches it.
NaN == 2^30

\* What reading past the end of an array, or a missing argument, yields.
Undefined == 2^30 + 1

IsNum(v) == v # NaN /\ v # Undefined

\* a + b
Add(a, b) == IF IsNum(a) /\ IsNum(b) THEN a + b ELSE NaN

\* a - b
Sub(a, b) == IF IsNum(a) /\ IsNum(b) THEN a - b ELSE NaN

\* a * b
Mul(a, b) == IF IsNum(a) /\ IsNum(b) THEN a * b ELSE NaN

\* a / n, rounded down to the integer grid; 0 / 0 is NaN.
Div(a, n) == IF IsNum(a) /\ IsNum(n) /\ n # 0 THEN a \div n ELSE NaN

\* Integers of magnitude up to 2^24 are float32 values.
F32Exact == 2^24

RECURSIVE Ulp(_)
\* The spacing of the float32 values around the magnitude a.
Ulp(a) == IF a <= F32Exact THEN 1 ELSE 2 * Ulp((a + 1) \div 2)

\* The float32 nearest to the magnitude a, ties to the even significand.
RoundMagnitude(a) ==
    LET u == Ulp(a)
        q == a \div u
        r == a % u
    IN  IF 2 * r < u THEN q * u
        ELSE IF 2 * r > u THEN (q + 1) * u
        ELSE IF q % 2 = 0 THEN q * u ELSE (q + 1) * u

\* What a Float32Array cell holds after v is assigned to it.
ToFloat32(v) ==
    IF ~IsNum(v) THEN NaN
    ELSE IF v < 0 THEN 0 - RoundMagnitude(0 - v) ELSE RoundMagnitude(v)

RECURSIVE DecDigits(_)
\* The decimal digits of n >= 0, as character codes.
DecDigits(n) == IF n < 10 THEN <<48 + n>> ELSE Append(DecDigits(n \div 10), 48 + (n % 10))

\* String(v) for an integer-valued number, as character codes ("-" is 45).
NumberToString(v) == IF v < 0 THEN <<45>> \o DecDigits(0 - v) ELSE DecDigits(v)

RECURSIVE StringLess(_, _)
\* s < t on strings: by code unit, a proper prefix first.
StringLess(s, t) ==
    IF t = <<>> THEN FALSE
    ELSE IF s = <<>> THEN TRUE
    ELSE IF Head(s) # Head(t) THEN Head(s) < Head(t)
    ELSE StringLess(Tail(s), Tail(t))

\* Array.prototype.sort() without a comparator: b goes before a when String(b) < String(a).
DefaultBefore(b, a) == StringLess(NumberToString(b), NumberToString(a))

\* Float32Array.prototype.sort(): numeric order, NaN last.
NumericBefore(b, a) == IsNum(b) /\ (~IsNum(a) \/ b < a)

RECURSIVE InsertDefault(_, _)
InsertDefault(s, v) ==
    IF s = <<>> THEN <<v>>
    ELSE IF DefaultBefore(v, Head(s)) THEN <<v>> \o s
    ELSE <<Head(s)>> \o InsertDefault(Tail(s), v)

RECURSIVE SortDefault(_)
\* array.sort(): stable, by the elements' strings.
SortDefault(s) == IF s = <<>> THEN <<>> ELSE InsertDefault(SortDefault(SubSeq(s, 1, Len(s) - 1)), s[Len(s)])

RECURSIVE InsertNumeric(_, _)
InsertNumeric(s, v) ==
    IF s = <<>> THEN <<v>>
    ELSE IF NumericBefore(v, Head(s)) THEN <<v>> \o s
    ELSE <<Head(s)>> \o InsertNumeric(Tail(s), v)

RECURSIVE SortNumeric(_)
\* block.sort() on a Float32Array.
SortNumeric(s) == IF s = <<>> THEN <<>> ELSE InsertNumeric(SortNumeric(SubSeq(s, 1, Len(s) - 1)), s[Len(s)])

RECURSIVE Sum(_)
\* array.reduce((a, b) => a + b, 0)
Sum(s) == IF s = <<>> THEN 0 ELSE Add(Sum(SubSeq(s, 1, Len(s) - 1)), s[Len(s)])

RECURSIVE Range(_, _, _)
\* The values a loop "for (i = from; i <= to; i += step)" takes, in order.
Range(from, to, step) == IF from > to THEN <<>> ELSE <<from>> \o Range(from + step, to, step)

----------------------------------------------------------------------------
(* The heap of arrays *)

\* The null a missing constraint defaults to; every array's reference is >= 1.
Null == 0

\* new Float32Array(n): n zeros.
NewFloat32Array(n) == [kind |-> "Float32Array", elems |-> [i \in 1..n |-> 0]]

\* array[i]: undefined past either end.
ReadElem(h, ref, i) ==
    IF i >= 0 /\ i < Len(h[ref].elems) THEN h[ref].elems[i + 1] ELSE Undefined

\* array[i] = v.  A Float32Array converts v to float32 and ignores an index it
\* does not have; a plain Array keeps v as it is and grows to hold index i.
WriteElem(h, ref, i, v) ==
    LET a == h[ref]
        n == Len(a.elems)
    IN  IF a.kind = "Float32Array"
        THEN IF i >= 0 /\ i < n
             THEN [h EXCEPT ![ref].elems[i + 1] = ToFloat32(v)]
             ELSE h
        ELSE IF i < 0 THEN h
        ELSE IF i < n THEN [h EXCEPT ![ref].elems[i + 1] = v]
        ELSE [h EXCEPT ![ref].elems =
                 [k \in 1..(i + 1) |-> IF k <= n THEN a.elems[k]
                                       ELSE IF k = i + 1 THEN v ELSE Undefined]]

----------------------------------------------------------------------------
(* terrain-generation.js: helpers *)

\* One call of Math.random(): the generator's next state.
RandomNext(s) == (s * 75 + 74) % 65537

\* The value Math.random() returns in state s, in RandLevels-ths: 0 <= value < 1.
RandomValue(s) == (s * RandLevels) \div 65537

\* rand(scale) with Math.random() = r / RandLevels.
rand(scale, r) == Sub(Div(Mul(Mul(r, scale), 2), RandLevels), scale)

\* filterUndefined(array): keeps n when n === 0 || n, so numbers stay and
\* undefined and NaN go.
filterUndefined(array) == SelectSeq(array, LAMBDA n : IsNum(n))

\* A faulty average: it divides by four however many values are there.
averageOverFour(array) == Div(Sum(filterUndefined(array)), 4)

\* average(...array)
average(array) ==
    LET kept == filterUndefined(array)
    IN  Div(Sum(kept), Len(kept))

\* median(...array): the default sort orders the numbers by their strings.
median(array) ==
    LET kept == SortDefault(filterUndefined(array))
        n == Len(kept)
        at(i) == IF i >= 0 /\ i < n THEN kept[i + 1] ELSE Undefined
    IN  IF n % 2 = 1 THEN at((n - 1) \div 2)
        ELSE Div(Add(at(n \div 2 - 1), at(n \div 2)), 2)

----------------------------------------------------------------------------
(* terrain-generation.js: the map under construction                       *)
(* map is local to one call and its rows are fresh Float32Arrays nothing   *)
(* else refers to, so it is kept by value: map[x + 1][y + 1] is the code's *)
(* map[x][y].  st = [map, rng, threw] is the state the steps thread:       *)
(* threw says a TypeError has ended the call.                              *)

\* map[x] exists.
RowOk(map, x) == x >= 0 /\ x < Len(map)

\* map[x][y] for an existing row: undefined past the row's ends.
Get(map, x, y) ==
    IF y >= 0 /\ y < Len(map[x + 1]) THEN map[x + 1][y + 1] ELSE Undefined

\* The values at the places read, in order (every row exists).
GetAll(map, places) == [k \in 1..Len(places) |-> Get(map, places[k][1], places[k][2])]

\* Reading map[x][y] throws when map[x] is undefined.
ReadsThrow(map, places) == \E k \in 1..Len(places) : ~RowOk(map, places[k][1])

\* map[x][y] = v on Float32Array rows.
Put(st, x, y, v) ==
    IF st.threw THEN st
    ELSE IF ~RowOk(st.map, x) THEN [st EXCEPT !.threw = TRUE]
    ELSE IF y >= 0 /\ y < Len(st.map[x + 1])
         THEN [st EXCEPT !.map[x + 1][y + 1] = ToFloat32(v)]
         ELSE st

\* rand(scl) drawn from the generator in st: the value, and st after the draw.
Draw(st, scl) == [v |-> rand(scl, RandomValue(st.rng)), st |-> [st EXCEPT !.rng = RandomNext(st.rng)]]

----------------------------------------------------------------------------
(* terrain-generation.js: generateTerrain                                  *)
(* c = [max, roughness, top, bottom, left, right, heap] holds what the     *)
(* nested functions close over; a constraint is Null or an array's         *)
(* reference into c.heap.                                                  *)

\* a ? a[ai] : b ? b[bi] : rand(scale)
cornerValue(st, c, scale, a, ai, b, bi) ==
    IF a # Null THEN [v |-> ReadElem(c.heap, a, ai), st |-> st]
    ELSE IF b # Null THEN [v |-> ReadElem(c.heap, b, bi), st |-> st]
    ELSE Draw(st, scale)

\* map[x][y] = a ? a[ai] : b ? b[bi] : rand(scale)
seedCorner(st, c, scale, x, y, a, ai, b, bi) ==
    LET d == cornerValue(st, c, scale, a, ai, b, bi)
    IN  Put(d.st, x, y, d.v)

\* A faulty seeding: at map[max][0] the right edge goes before the bottom edge.
seedCornersRightOverBottom(st, c, scale) ==
    LET s1 == seedCorner(st, c, scale, 0, 0, c.top, 0, c.right, 0)
        s2 == seedCorner(s1, c, scale, c.max, 0, c.right, c.max, c.bottom, 0)
        s3 == seedCorner(s2, c, scale, c.max, c.max, c.bottom, c.max, c.left, c.max)
    IN  seedCorner(s3, c, scale, 0, c.max, c.top, c.max, c.left, 0)

\* Start with random values in the corners.
seedCorners(st, c, scale) ==
    LET s1 == seedCorner(st, c, scale, 0, 0, c.top, 0, c.right, 0)
        s2 == seedCorner(s1, c, scale, c.max, 0, c.bottom, 0, c.right, c.max)
        s3 == seedCorner(s2, c, scale, c.max, c.max, c.bottom, c.max, c.left, c.max)
    IN  seedCorner(s3, c, scale, 0, c.max, c.top, c.max, c.left, 0)

\* A faulty square: it takes the two-corner case for every cell.
squarePlacesTwoCorners(x, y, sz, max) == << <<x + sz, y - sz>>, <<x + sz, y + sz>> >>

\* square(x, y, sz): the cells it averages, in argument order.
squarePlaces(x, y, sz, max) ==
    IF x < sz THEN << <<x + sz, y - sz>>, <<x + sz, y + sz>> >>
    ELSE IF x > max - sz THEN << <<x + sz, y - sz>>, <<x + sz, y + sz>> >>
    ELSE << <<x - sz, y - sz>>, <<x + sz, y - sz>>, <<x + sz, y + sz>>, <<x - sz, y + sz>> >>

\* A faulty diamond: its second place is the diagonal neighbour.
diamondPlacesDiagonal(x, y, sz, max) ==
    IF x > max - sz THEN << <<x, y - sz>>, <<x, y + sz>>, <<x - sz, y>> >>
    ELSE << <<x, y - sz>>, <<x + sz, y + sz>>, <<x, y + sz>>, <<x - sz, y>> >>

\* A faulty diamond: it takes all four neighbours wherever the cell is.
diamondPlacesAlwaysFour(x, y, sz, max) ==
    << <<x, y - sz>>, <<x + sz, y>>, <<x, y + sz>>, <<x - sz, y>> >>

\* diamond(x, y, sz): the cells it averages, in argument order.
diamondPlaces(x, y, sz, max) ==
    IF x < sz THEN << <<x, y - sz>>, <<x + sz, y>>, <<x, y + sz>> >>
    ELSE IF x > max - sz THEN << <<x, y - sz>>, <<x, y + sz>>, <<x - sz, y>> >>
    ELSE << <<x, y - sz>>, <<x + sz, y>>, <<x, y + sz>>, <<x - sz, y>> >>

\* map[x][y] = rand(scl) + <the average of the cells at places>
displace(st, x, y, scl, places) ==
    IF st.threw THEN st
    ELSE LET d == Draw(st, scl)
         IN  IF ReadsThrow(d.st.map, places) THEN [d.st EXCEPT !.threw = TRUE]
             ELSE Put(d.st, x, y, Add(d.v, average(GetAll(d.st.map, places))))

\* map[x][y] = rand(scl) + square(x, y, half)
squareStep(st, c, x, y, half, scl) ==
    displace(st, x, y, scl, squarePlaces(x, y, half, c.max))

\* A faulty diamond loop: it computes the cells of row 0 whether or not top is given.
diamondStepFreeTop(st, c, x, y, half, scl) ==
    IF c.bottom # Null /\ x = c.max THEN Put(st, x, y, ReadElem(c.heap, c.bottom, y))
    ELSE IF c.left # Null /\ y = c.max THEN Put(st, x, y, ReadElem(c.heap, c.left, x))
    ELSE IF c.right # Null /\ y = 0 THEN Put(st, x, y, ReadElem(c.heap, c.right, x))
    ELSE displace(st, x, y, scl, diamondPlaces(x, y, half, c.max))

\* The diamond loop's assignment to map[x][y].
diamondStep(st, c, x, y, half, scl) ==
    IF c.top # Null /\ x = 0 THEN Put(st, x, y, ReadElem(c.heap, c.top, y))
    ELSE IF c.bottom # Null /\ x = c.max THEN Put(st, x, y, ReadElem(c.heap, c.bottom, y))
    ELSE IF c.left # Null /\ y = c.max THEN Put(st, x, y, ReadElem(c.heap, c.left, x))
    ELSE IF c.right # Null /\ y = 0 THEN Put(st, x, y, ReadElem(c.heap, c.right, x))
    ELSE displace(st, x, y, scl, diamondPlaces(x, y, half, c.max))

\* A faulty square loop: it starts at 0 and includes max.
squareCellsFromZero(half, sz, max) ==
    LET at == Range(0, max, sz)
        n == Len(at)
    IN  [k \in 1..(n * n) |-> <<at[((k - 1) % n) + 1], at[((k - 1) \div n) + 1]>>]

\* for (y = half; y < max; y += sz) for (x = half; x < max; x += sz): the <<x, y>> in order.
squareCells(half, sz, max) ==
    LET at == Range(half, max - 1, sz)
        n == Len(at)
    IN  [k \in 1..(n * n) |-> <<at[((k - 1) % n) + 1], at[((k - 1) \div n) + 1]>>]

RECURSIVE diamondCellsAllColumns(_, _, _, _)
\* A faulty diamond loop: in every row it visits every column that is a
\* multiple of half.
diamondCellsAllColumns(y, half, sz, max) ==
    IF y > max THEN <<>>
    ELSE LET xs == Range(0, max, half)
         IN  [k \in 1..Len(xs) |-> <<xs[k], y>>] \o diamondCellsAllColumns(y + half, half, sz, max)

RECURSIVE diamondCells(_, _, _, _)
\* for (y = 0; y <= max; y += half) for (x = (y + half) % sz; x <= max; x += sz),
\* from row y on: the <<x, y>> in order.
diamondCells(y, half, sz, max) ==
    IF y > max THEN <<>>
    ELSE LET xs == Range((y + half) % sz, max, sz)
         IN  [k \in 1..Len(xs) |-> <<xs[k], y>>] \o diamondCells(y + half, half, sz, max)

RECURSIVE squareLoop(_, _, _, _, _, _, _)
\* The square loop's assignments number lo..hi of cells, in order (the run is
\* split in two halves, the first done before the second; once a TypeError has
\* ended the call nothing more is assigned).
squareLoop(st, c, cells, lo, hi, half, scl) ==
    IF lo > hi \/ st.threw THEN st
    ELSE IF lo = hi THEN squareStep(st, c, cells[lo][1], cells[lo][2], half, scl)
    ELSE squareLoop(squareLoop(st, c, cells, lo, (lo + hi) \div 2, half, scl),
                    c, cells, (lo + hi) \div 2 + 1, hi, half, scl)

RECURSIVE diamondLoop(_, _, _, _, _, _, _)
\* The diamond loop's assignments number lo..hi of cells, in order.
diamondLoop(st, c, cells, lo, hi, half, scl) ==
    IF lo > hi \/ st.threw THEN st
    ELSE IF lo = hi THEN diamondStep(st, c, cells[lo][1], cells[lo][2], half, scl)
    ELSE diamondLoop(diamondLoop(st, c, cells, lo, (lo + hi) \div 2, half, scl),
                     c, cells, (lo + hi) \div 2 + 1, hi, half, scl)

\* One level of divide(sz): the square pass, then the diamond pass.
divideLevel(st, c, sz) ==
    LET half == sz \div 2
        scl == Mul(c.roughness, sz)
        sq == squareCells(half, sz, c.max)
        dm == diamondCells(0, half, sz, c.max)
    IN  diamondLoop(squareLoop(st, c, sq, 1, Len(sq), half, scl), c, dm, 1, Len(dm), half, scl)

RECURSIVE divide(_, _, _)
\* divide(sz): returns when sz / 2 < 1, else does its two passes and calls divide(sz / 2).
divide(st, c, sz) ==
    IF sz < 2 \/ st.threw THEN st ELSE divide(divideLevel(st, c, sz), c, sz \div 2)

\* median3Filter: the cells of src read for dst[r][q], in the order read (n = N - 1).
filterPlaces(r, q, n) ==
    IF r = 0 /\ q = 0 THEN << <<0, 0>>, <<1, 0>>, <<0, 1>>, <<1, 1>> >>
    ELSE IF r = n /\ q = 0 THEN << <<n, 0>>, <<n, 1>>, <<n - 1, 0>>, <<n - 1, 1>> >>
    ELSE IF r = 0 /\ q = n THEN << <<0, n>>, <<1, n>>, <<0, n - 1>>, <<1, n - 1>> >>
    ELSE IF r = n /\ q = n THEN << <<n, n>>, <<n, n - 1>>, <<n - 1, n>>, <<n - 1, n - 1>> >>
    ELSE IF q = 0 THEN << <<r - 1, 0>>, <<r, 0>>, <<r + 1, 0>>, <<r - 1, 1>>, <<r, 1>>, <<r + 1, 1>> >>
    ELSE IF q = n THEN << <<r - 1, n>>, <<r, n>>, <<r + 1, n>>,
                          <<r - 1, n - 1>>, <<r, n - 1>>, <<r + 1, n - 1>> >>
    ELSE IF r = 0 THEN << <<0, q - 1>>, <<0, q>>, <<0, q + 1>>, <<1, q - 1>>, <<1, q>>, <<1, q + 1>> >>
    ELSE IF r = n THEN << <<n, q - 1>>, <<n, q>>, <<n, q + 1>>,
                          <<n - 1, q - 1>>, <<n - 1, q>>, <<n - 1, q + 1>> >>
    ELSE [k \in 1..9 |-> <<r - 1 + ((k - 1) \div 3), q - 1 + ((k - 1) % 3)>>]

\* median3Filter: the value of dst[r][q].  The core sorts its Float32Array block
\* numerically and takes block[4]; the corners and edges go through median().
filterValue(src, r, q, n) ==
    LET block == GetAll(src, filterPlaces(r, q, n))
    IN  IF r > 0 /\ r < n /\ q > 0 /\ q < n
        THEN SortNumeric(block)[5]
        ELSE median(block)

\* A faulty median3Filter: its rows lack the last column.
median3FilterNarrow(src) ==
    LET N == Len(src)
    IN  [r1 \in 1..N |->
           [q1 \in 1..(N - 1) |-> ToFloat32(filterValue(src, r1 - 1, q1 - 1, N - 1))]]

\* median3Filter(src): dst, a new grid of Float32Array rows, by value.
median3Filter(src) ==
    LET N == Len(src)
    IN  [r1 \in 1..N |-> [q1 \in 1..N |-> ToFloat32(filterValue(src, r1 - 1, q1 - 1, N - 1))]]

\* A faulty assignment, the wrong way round: src[i] takes the cell of smoothed.
forceCellBack(h, smoothed, which, src, i, max) ==
    CASE which = "top" -> WriteElem(h, src, i, ReadElem(h, smoothed[1], i))
      [] which = "bottom" -> WriteElem(h, src, i, ReadElem(h, smoothed[max + 1], i))
      [] which = "left" -> WriteElem(h, src, i, ReadElem(h, smoothed[i + 1], max))
      [] which = "right" -> WriteElem(h, src, i, ReadElem(h, smoothed[i + 1], 0))

\* Lines 53-56, one assignment: the edge `which` of smoothed takes src[i].
forceCell(h, smoothed, which, src, i, max) ==
    LET v == ReadElem(h, src, i)
    IN  CASE which = "top" -> WriteElem(h, smoothed[1], i, v)
          [] which = "bottom" -> WriteElem(h, smoothed[max + 1], i, v)
          [] which = "left" -> WriteElem(h, smoothed[i + 1], max, v)
          [] which = "right" -> WriteElem(h, smoothed[i + 1], 0, v)

RECURSIVE forceEdge(_, _, _, _, _, _, _)
\* for (i = lo; i <= hi; i++) { <edge `which` of smoothed>[i] = src[i]; }
forceEdge(h, smoothed, which, src, lo, hi, max) ==
    IF lo > hi \/ src \notin DOMAIN h THEN h
    ELSE IF lo = hi THEN forceCell(h, smoothed, which, src, lo, max)
    ELSE forceEdge(forceEdge(h, smoothed, which, src, lo, (lo + hi) \div 2, max),
                   smoothed, which, src, (lo + hi) \div 2 + 1, hi, max)

\* A faulty forcing: the edge is left as the median filter made it.
forceIfSkipped(h, smoothed, which, src, max) == h

\* if (src) { for (i = 0; i < size; i++) { ... } }
forceIf(h, smoothed, which, src, max) ==
    IF src = Null THEN h ELSE forceEdge(h, smoothed, which, src, 0, max, max)

\* A faulty order: the columns first, the rows last.
forceEdgesRowsLast(h, smoothed, max, top, bottom, left, right) ==
    LET h1 == forceIf(h, smoothed, "left", left, max)
        h2 == forceIf(h1, smoothed, "right", right, max)
        h3 == forceIf(h2, smoothed, "top", top, max)
    IN  forceIf(h3, smoothed, "bottom", bottom, max)

\* A faulty forcing: the right edge is left out.
forceEdgesWithoutRight(h, smoothed, max, top, bottom, left, right) ==
    LET h1 == forceIf(h, smoothed, "top", top, max)
        h2 == forceIf(h1, smoothed, "bottom", bottom, max)
    IN  forceIf(h2, smoothed, "left", left, max)

\* Force the top, bottom, left, and right edges to match the provided values.
forceEdges(h, smoothed, max, top, bottom, left, right) ==
    LET h1 == forceIf(h, smoothed, "top", top, max)
        h2 == forceIf(h1, smoothed, "bottom", bottom, max)
        h3 == forceIf(h2, smoothed, "left", left, max)
    IN  forceIf(h3, smoothed, "right", right, max)

\* Lines 49-58: the rows of dst become new Float32Array objects of the heap, the
\* given edges are forced on them, and they are returned.
returnSmoothed(h, dst, r, max, top, bottom, left, right) ==
    [heap |-> forceEdges(h \o [i \in 1..Len(dst) |->
                                 [kind |-> "Float32Array", elems |-> dst[i]]],
                         [i \in 1..Len(dst) |-> Len(h) + i], max, top, bottom, left, right),
     rng |-> r, threw |-> FALSE, ret |-> [i \in 1..Len(dst) |-> Len(h) + i]]

\* The end of generateTerrain, from the map divide left.
smoothAndForce(h, divided, max, top, bottom, left, right) ==
    IF divided.threw THEN [heap |-> h, rng |-> divided.rng, threw |-> TRUE, ret |-> <<>>]
    ELSE returnSmoothed(h, median3Filter(divided.map), divided.rng, max,
                        top, bottom, left, right)

\* A validation the code does not have: detail below 1 is rejected.
newArrayThrowsBelowOne(detail) == detail < 1

\* new Array(size) throws a RangeError when size = 2^detail + 1 is not an integer:
\* for an integer detail, when it is negative.
newArrayThrows(detail) == detail < 0

\* generateTerrain(detail, roughness, {top, bottom, left, right}) on heap h with
\* Math.random in state r0: the heap and the generator's state afterwards, whether
\* the call threw, and the heightfield returned (the references of its rows).
\* A negative detail makes size fractional, and new Array(size) throws a RangeError.
generateTerrain(h, r0, detail, roughness, top, bottom, left, right) ==
    IF newArrayThrows(detail) THEN [heap |-> h, rng |-> r0, threw |-> TRUE, ret |-> <<>>]
    ELSE
    LET size == 2^detail + 1
        max == size - 1
        c == [max |-> max, roughness |-> roughness, top |-> top, bottom |-> bottom,
              left |-> left, right |-> right, heap |-> h]
        map == [i \in 1..size |-> NewFloat32Array(size).elems]
        scale == Div(Mul(roughness, size), 2)
    IN  smoothAndForce(h,
                       divide(seedCorners([map |-> map, rng |-> r0, threw |-> FALSE], c, scale),
                              c, max),
                       max, top, bottom, left, right)

\* A faulty extractTop: the last row.
extractTopLastRow(terrain) == terrain[Len(terrain)]

\* extractTop(terrain): the first row itself.
extractTop(terrain) == terrain[1]

\* extractBottom(terrain): the last row itself.
extractBottom(terrain) == terrain[Len(terrain)]

\* A faulty extractLeft: every row's first cell.
extractLeftFirstColumn(h, terrain) ==
    [kind |-> "Array", elems |-> [i \in 1..Len(terrain) |-> ReadElem(h, terrain[i], 0)]]

\* extractLeft(terrain): a new Array of every row's last cell.
extractLeft(h, terrain) ==
    [kind |-> "Array",
     elems |-> [i \in 1..Len(terrain) |-> ReadElem(h, terrain[i], Len(h[terrain[i]].elems) - 1)]]

\* A faulty extractRight: the last row is left out.
extractRightShort(h, terrain) ==
    [kind |-> "Array",
     elems |-> [i \in 1..(Len(terrain) - 1) |-> ReadElem(h, terrain[i], 0)]]

\* A faulty extractRight: every row's last cell.
extractRightLastColumn(h, terrain) ==
    [kind |-> "Array",
     elems |-> [i \in 1..Len(terrain) |-> ReadElem(h, terrain[i], Len(h[terrain[i]].elems) - 1)]]

\* extractRight(terrain): a new Array of every row's first cell.
extractRight(h, terrain) ==
    [kind |-> "Array", elems |-> [i \in 1..Len(terrain) |-> ReadElem(h, terrain[i], 0)]]

----------------------------------------------------------------------------
(* flight-sim.js: the chunk store *)

\* The world-unit side of one chunk.
SQUARE_SIZE == 2000

\* The roughness addTerrainChunk generates with.
CHUNK_ROUGHNESS == 5

\* The height the meshes are placed at.
MESH_Y == -100

\* A faulty list: the diagonal [1, 1] is missing.
neighborDirectionsShort ==
    << <<0, 0>>, <<1, 0>>, <<-1, 0>>,
       <<0, 1>>, <<0, -1>>,
       <<-1, -1>>,
       <<1, -1>>, <<-1, 1>> >>

\* A faulty list: the diagonals come before the cardinal directions.
neighborDirectionsDiagonalsFirst ==
    << <<0, 0>>, <<1, 1>>, <<-1, -1>>,
       <<1, -1>>, <<-1, 1>>,
       <<1, 0>>, <<-1, 0>>,
       <<0, 1>>, <<0, -1>> >>

\* The [dx, dy] generateNeighboringChunks walks, in order.
neighborDirections ==
    << <<0, 0>>, <<1, 0>>, <<-1, 0>>,
       <<0, 1>>, <<0, -1>>,
       <<1, 1>>, <<-1, -1>>,
       <<1, -1>>, <<-1, 1>> >>

\* chunkHeights[key] is set.
Stored(store, key) == key \in DOMAIN store

\* chunkHeights[key] = terrain
StoreAt(store, key, terrain) ==
    [k \in DOMAIN store \cup {key} |-> IF k = key THEN terrain ELSE store[k]]

\* A faulty addTerrainMesh: the mesh is placed at the chunk's coordinates, not
\* scaled by SQUARE_SIZE.
addTerrainMeshUnscaled(h, store, ms, x, y) ==
    IF ~Stored(store, <<x, y>>) THEN ms
    ELSE Append(ms, [key |-> <<x, y>>, position |-> <<x, MESH_Y, y>>,
                     size |-> Len(store[<<x, y>>]) - 1])

\* addTerrainMesh(x, y): the mesh SCENE gains, if chunkHeights holds the chunk:
\* its place, and the segments per side of its geometry.
addTerrainMesh(h, store, ms, x, y) ==
    IF ~Stored(store, <<x, y>>) THEN ms
    ELSE Append(ms, [key |-> <<x, y>>,
                     position |-> <<x * SQUARE_SIZE, MESH_Y, y * SQUARE_SIZE>>,
                     size |-> Len(store[<<x, y>>]) - 1])

\* The heap once the call's temporaries, the nTemps arrays made after the first
\* n0, are garbage: the arrays after them move down.
dropTemps(h, n0, nTemps) == SubSeq(h, 1, n0) \o SubSeq(h, n0 + nTemps + 1, Len(h))

\* Where the array ref is after dropTemps.
movedRef(ref, n0, nTemps) == IF ref > n0 + nTemps THEN ref - nTemps ELSE ref

\* The contents of the array a constraint refers to (none for null).
Contents(h, ref) == IF ref = Null THEN <<>> ELSE h[ref].elems

\* No call of addTerrainChunk yet.
NoCall ==
    [n |-> 0, x |-> 0, y |-> 0, existed |-> FALSE, invoked |-> FALSE, threw |-> FALSE,
     after |-> [top |-> <<>>, bottom |-> <<>>, left |-> <<>>, right |-> <<>>],
     passed |-> [top |-> [given |-> FALSE, elems |-> <<>>], bottom |-> [given |-> FALSE, elems |-> <<>>],
                 left |-> [given |-> FALSE, elems |-> <<>>], right |-> [given |-> FALSE, elems |-> <<>>]]]

\* A faulty resolution: top and bottom take the neighbours' other rows.
neighborEdgesSwapped(h, store, x, y) ==
    [top |-> IF Stored(store, <<x, y + 1>>) THEN extractTop(store[<<x, y + 1>>]) ELSE Null,
     bottom |-> IF Stored(store, <<x, y - 1>>) THEN extractBottom(store[<<x, y - 1>>]) ELSE Null,
     left |-> IF Stored(store, <<x - 1, y>>) THEN Len(h) + 1 ELSE Null,
     right |-> IF ~Stored(store, <<x + 1, y>>) THEN Null
               ELSE IF Stored(store, <<x - 1, y>>) THEN Len(h) + 2 ELSE Len(h) + 1,
     heap |-> h \o (IF Stored(store, <<x - 1, y>>)
                    THEN <<extractRight(h, store[<<x - 1, y>>])>> ELSE <<>>)
                \o (IF Stored(store, <<x + 1, y>>)
                    THEN <<extractLeft(h, store[<<x + 1, y>>])>> ELSE <<>>)]

\* The constraints addTerrainChunk(x, y) passes: top and bottom are rows of the
\* stored neighbours, left and right are new arrays (the heap gains them).
neighborEdges(h, store, x, y) ==
    [top |-> IF Stored(store, <<x, y + 1>>) THEN extractBottom(store[<<x, y + 1>>]) ELSE Null,
     bottom |-> IF Stored(store, <<x, y - 1>>) THEN extractTop(store[<<x, y - 1>>]) ELSE Null,
     left |-> IF Stored(store, <<x - 1, y>>) THEN Len(h) + 1 ELSE Null,
     right |-> IF ~Stored(store, <<x + 1, y>>) THEN Null
               ELSE IF Stored(store, <<x - 1, y>>) THEN Len(h) + 2 ELSE Len(h) + 1,
     heap |-> h \o (IF Stored(store, <<x - 1, y>>)
                    THEN <<extractRight(h, store[<<x - 1, y>>])>> ELSE <<>>)
                \o (IF Stored(store, <<x + 1, y>>)
                    THEN <<extractLeft(h, store[<<x + 1, y>>])>> ELSE <<>>)]

\* What addTerrainChunk passed: for each edge whether it was non-null, and the
\* contents of its array.
passedEdges(e) ==
    [top |-> [given |-> e.top # Null, elems |-> Contents(e.heap, e.top)],
     bottom |-> [given |-> e.bottom # Null, elems |-> Contents(e.heap, e.bottom)],
     left |-> [given |-> e.left # Null, elems |-> Contents(e.heap, e.left)],
     right |-> [given |-> e.right # Null, elems |-> Contents(e.heap, e.right)]]

\* The contents of the constraint arrays e once generateTerrain has returned
\* with the heap h.
edgesAfter(h, e) ==
    [top |-> Contents(h, e.top), bottom |-> Contents(h, e.bottom),
     left |-> Contents(h, e.left), right |-> Contents(h, e.right)]

\* chunkHeights[`${x},${y}`] = newTerrain; addTerrainMesh(x, y): g is what
\* generateTerrain returned, e the constraints it was passed.
storeChunk(h, store, ms, x, y, e, g) ==
    IF g.threw
    THEN [heap |-> h, chunkHeights |-> store, meshes |-> ms, rng |-> g.rng, threw |-> TRUE,
          invoked |-> TRUE, passed |-> passedEdges(e), after |-> edgesAfter(e.heap, e)]
    ELSE [heap |-> dropTemps(g.heap, Len(h), Len(e.heap) - Len(h)),
          chunkHeights |-> StoreAt(store, <<x, y>>,
                                   [i \in 1..Len(g.ret) |->
                                      movedRef(g.ret[i], Len(h), Len(e.heap) - Len(h))]),
          meshes |-> addTerrainMesh(g.heap, StoreAt(store, <<x, y>>, g.ret), ms, x, y),
          rng |-> g.rng, threw |-> FALSE, invoked |-> TRUE, passed |-> passedEdges(e),
          after |-> edgesAfter(g.heap, e)]

\* A faulty call: a missing neighbour is an error, and nothing is stored.
generateChunkStrict(h, store, ms, r, x, y, e) ==
    IF e.top = Null \/ e.bottom = Null \/ e.left = Null \/ e.right = Null
    THEN [heap |-> h, chunkHeights |-> store, meshes |-> ms, rng |-> r, threw |-> TRUE,
          invoked |-> FALSE, passed |-> passedEdges(e), after |-> edgesAfter(e.heap, e)]
    ELSE storeChunk(h, store, ms, x, y, e,
                    generateTerrain(e.heap, r, ChunkDetail, CHUNK_ROUGHNESS,
                                    e.top, e.bottom, e.left, e.right))

\* The call of generateTerrain in addTerrainChunk, with the constraints e.
generateChunk(h, store, ms, r, x, y, e) ==
    storeChunk(h, store, ms, x, y, e,
               generateTerrain(e.heap, r, ChunkDetail, CHUNK_ROUGHNESS,
                               e.top, e.bottom, e.left, e.right))

\* A faulty addTerrainChunk, without the early return for a stored chunk.
addTerrainChunkAgain(h, store, ms, r, x, y) ==
    generateChunk(h, store, ms, r, x, y, neighborEdges(h, store, x, y))

\* addTerrainChunk(x, y) on heap h, store, meshes ms, Math.random state r: what
\* these are afterwards, whether generateTerrain was invoked, and the constraints
\* passed to it (whether non-null, and the array's contents).
addTerrainChunk(h, store, ms, r, x, y) ==
    IF Stored(store, <<x, y>>)
    THEN [heap |-> h, chunkHeights |-> store, meshes |-> ms, rng |-> r, threw |-> FALSE,
          invoked |-> FALSE, passed |-> NoCall.passed, after |-> NoCall.after]
    ELSE generateChunk(h, store, ms, r, x, y, neighborEdges(h, store, x, y))

\* generateNeighboringChunks(x, y): the coordinates it requests, in order.
generateNeighboringChunks(x, y) ==
    <<<<x, y>>>> \o [k \in 1..Len(neighborDirections) |->
                        <<x + neighborDirections[k][1], y + neighborDirections[k][2]>>]

\* A faulty rounding: toward zero.
MathTruncDiv(a, b) == IF a >= 0 THEN a \div b ELSE 0 - ((0 - a) \div b)

\* Math.floor(a / b) for b > 0.
MathFloorDiv(a, b) == a \div b

\* checkTerrainUpdate(): the chunk the aircraft at <<px, pz>> is over.
checkTerrainUpdate(px, pz) == <<MathFloorDiv(px, SQUARE_SIZE), MathFloorDiv(pz, SQUARE_SIZE)>>

----------------------------------------------------------------------------
(* The simulation: the aircraft's load, the animation frames and the chunks *)
(* they request.  A frame runs to completion: while its requests are        *)
(* pending (todo is not empty) no callback and no other frame runs.         *)

\* The states Math.random may be in when the page starts.
Seeds == {(k * 20011) % 65537 : k \in 1..NumSeeds}

\* Where the aircraft may be at a frame: <<x, z>> in world units.
Positions ==
    UNION {{<<PosUnit * i, 0>>, <<PosUnit * i, PosUnit * i>>} : i \in (0 - 1)..MaxPos}

\* No call of generateTerrain made yet.
NoGen ==
    [phase |-> "start", detail |-> 0, roughness |-> 0, top |-> Null, bottom |-> Null,
     left |-> Null, right |-> Null, from |-> "", threw |-> FALSE, ret |-> <<>>,
     A |-> <<>>, h0 |-> <<>>]

\* No call of generateTerrain being followed.
NoRun ==
    [pc |-> "idle", detail |-> 0, roughness |-> 0, top |-> Null, bottom |-> Null,
     left |-> Null, right |-> Null, st |-> [map |-> <<>>, rng |-> 0, threw |-> FALSE],
     sz |-> 0, cells |-> <<>>, k |-> 0, entered |-> <<>>, passes |-> <<>>,
     reads |-> {}, writes |-> {}, vec |-> {}, smoothed |-> <<>>, r0 |-> 0]

Init ==
    /\ heap = <<>>
    /\ chunkHeights = <<>>
    /\ meshes = <<>>
    /\ rng \in Seeds
    /\ AIRCRAFT = "unset"
    /\ todo = <<>>
    /\ last = NoCall
    /\ frame = [n |-> 0, px |-> 0, pz |-> 0, centre |-> <<>>]
    /\ gen = NoGen
    /\ run = NoRun
    /\ tick = 0

\* mtlLoader.load's callback: the materials are there, the object is requested.
MtlLoaded ==
    /\ todo = <<>>
    /\ AIRCRAFT = "unset"
    /\ AIRCRAFT' = "mtl"
    /\ UNCHANGED <<heap, chunkHeights, meshes, rng, todo, last, frame, gen, run, tick>>

\* objLoader.load's callback: AIRCRAFT = object.
ObjLoaded ==
    /\ todo = <<>>
    /\ AIRCRAFT = "mtl"
    /\ AIRCRAFT' = "loaded"
    /\ UNCHANGED <<heap, chunkHeights, meshes, rng, todo, last, frame, gen, run, tick>>

\* A faulty animate: checkTerrainUpdate is called whether AIRCRAFT is set or not.
animateUngated(px, pz) ==
    /\ todo = <<>>
    /\ frame.n < MaxFrames
    /\ todo' = generateNeighboringChunks(checkTerrainUpdate(px, pz)[1],
                                         checkTerrainUpdate(px, pz)[2])
    /\ frame' = [n |-> frame.n + 1, px |-> px, pz |-> pz,
                 centre |-> checkTerrainUpdate(px, pz)]
    /\ UNCHANGED <<heap, chunkHeights, meshes, rng, AIRCRAFT, last, gen, run, tick>>

\* animate(): a frame.  With AIRCRAFT set it calls checkTerrainUpdate, which
\* requests the neighbourhood of the chunk the aircraft is over.
animate(px, pz) ==
    /\ todo = <<>>
    /\ frame.n < MaxFrames
    /\ IF AIRCRAFT = "loaded"
       THEN /\ todo' = generateNeighboringChunks(checkTerrainUpdate(px, pz)[1],
                                                 checkTerrainUpdate(px, pz)[2])
            /\ frame' = [n |-> frame.n + 1, px |-> px, pz |-> pz,
                         centre |-> checkTerrainUpdate(px, pz)]
       ELSE /\ todo' = <<>>
            /\ frame' = [n |-> frame.n + 1, px |-> px, pz |-> pz, centre |-> <<>>]
    /\ UNCHANGED <<heap, chunkHeights, meshes, rng, AIRCRAFT, last, gen, run, tick>>

\* The state after the call addTerrainChunk(x, y) whose outcome is a.
afterAddTerrainChunk(x, y, a) ==
    /\ heap' = a.heap
    /\ chunkHeights' = a.chunkHeights
    /\ meshes' = a.meshes
    /\ rng' = a.rng
    /\ todo' = IF a.threw THEN <<>> ELSE Tail(todo)
    /\ last' = [n |-> last.n + 1, x |-> x, y |-> y,
                existed |-> Stored(chunkHeights, <<x, y>>),
                invoked |-> a.invoked, threw |-> a.threw, passed |-> a.passed,
                after |-> a.after]

\* The next addTerrainChunk call of the running generateNeighboringChunks.
AddTerrainChunk ==
    /\ todo # <<>>
    /\ afterAddTerrainChunk(Head(todo)[1], Head(todo)[2],
                            addTerrainChunk(heap, chunkHeights, meshes, rng,
                                            Head(todo)[1], Head(todo)[2]))
    /\ UNCHANGED <<AIRCRAFT, frame, gen, run, tick>>

Next ==
    \/ MtlLoaded
    \/ ObjLoaded
    \/ \E p \in Positions : animate(p[1], p[2])
    \/ AddTerrainChunk

Spec == Init /\ [][Next]_vars

----------------------------------------------------------------------------
(* generateTerrain called on its own: a first call with arrays the caller   *)
(* made, then a second call constrained by edges extracted from the first   *)
(* call's heightfield A.                                                    *)

Details == (0 - 1)..MaxDetail

\* The default of the parameter roughness.
DEFAULT_ROUGHNESS == 1

\* The roughness of a call: the default, the one addTerrainChunk passes, and
\* two that are not positive.
Roughnesses == {0 - 1, 0, DEFAULT_ROUGHNESS, CHUNK_ROUGHNESS}

\* The side 2^detail + 1 (the arrays a caller makes for a fractional side
\* have two entries).
Side(detail) == IF detail < 0 THEN 2 ELSE 2^detail + 1

\* The caller's k-th vector of n entries: the second one holds odd integers
\* above 2^24, the others small ones.
Vec(k, n) == [i \in 1..n |-> IF k = 2 THEN F32Exact + 2 * i - 1 ELSE 100 * k + i]

NoEdge == [given |-> FALSE, elems |-> <<>>]

\* What a caller may pass as one constraint of a heightfield of side n: null,
\* a vector of n entries, or one of n - 1 or n + 1 entries.
EdgeChoices(n) ==
    {NoEdge} \cup {[given |-> TRUE, elems |-> Vec(k, n)] : k \in 1..NumVecs}
             \cup {[given |-> TRUE, elems |-> Vec(1, m)] : m \in {n - 1, n + 1}}

WrongLength(e, n) == e.given /\ Len(e.elems) # n

\* How many of the arguments break the documented ranges.
Invalidities(detail, roughness, es) ==
    (IF detail < 1 THEN 1 ELSE 0) + (IF roughness <= 0 THEN 1 ELSE 0)
    + Cardinality({i \in 1..4 : WrongLength(es[i], Side(detail))})

\* The constraint is null or the caller's first vector.
Plain(e) == ~e.given \/ e.elems = Vec(1, Len(e.elems))

\* The constraints <<top, bottom, left, right>> of a first call: all arguments
\* are within the documented ranges, or one is not and the constraints are null
\* or the first vector.
Constraints(detail, roughness) ==
    {es \in [1..4 -> EdgeChoices(Side(detail))] :
        /\ Invalidities(detail, roughness, es) <= 1
        /\ Invalidities(detail, roughness, es) = 1 => \A i \in 1..4 : Plain(es[i])}

\* The heap with the caller's array e, and the references so far.
allocEdge(st, e) ==
    IF e.given
    THEN [heap |-> Append(st.heap, [kind |-> "Array", elems |-> e.elems]),
          refs |-> Append(st.refs, Len(st.heap) + 1)]
    ELSE [heap |-> st.heap, refs |-> Append(st.refs, Null)]

allocEdges(h, es) ==
    allocEdge(allocEdge(allocEdge(allocEdge([heap |-> h, refs |-> <<>>], es[1]), es[2]), es[3]),
              es[4])

\* The state after generateTerrain(detail, roughness, {top, bottom, left, right})
\* was called on heap h0 and had the outcome g.
afterGenerate(phase, detail, roughness, refs, from, A, h0, g) ==
    /\ gen' = [phase |-> phase, detail |-> detail, roughness |-> roughness,
               top |-> refs[1], bottom |-> refs[2], left |-> refs[3], right |-> refs[4],
               from |-> from, threw |-> g.threw, ret |-> g.ret, A |-> A, h0 |-> h0]
    /\ heap' = g.heap
    /\ rng' = g.rng

generateWith(phase, detail, roughness, a, from, A) ==
    afterGenerate(phase, detail, roughness, a.refs, from, A, a.heap,
                  generateTerrain(a.heap, rng, detail, roughness,
                                  a.refs[1], a.refs[2], a.refs[3], a.refs[4]))

\* The first call.
Generate1 ==
    /\ gen.phase = "start"
    /\ \E detail \in Details, roughness \in Roughnesses :
         \E es \in Constraints(detail, roughness) :
            /\ generateWith("first", detail, roughness, allocEdges(heap, es), "caller", <<>>)
    /\ UNCHANGED <<chunkHeights, meshes, AIRCRAFT, todo, last, frame, run, tick>>

ExtractNames == {"extractTop", "extractBottom", "extractLeft", "extractRight"}

\* The heap after from(A) was called, and the reference it returned.
extracted(h, from, A) ==
    CASE from = "extractTop" -> [heap |-> h, ref |-> extractTop(A)]
      [] from = "extractBottom" -> [heap |-> h, ref |-> extractBottom(A)]
      [] from = "extractLeft" -> [heap |-> Append(h, extractLeft(h, A)), ref |-> Len(h) + 1]
      [] from = "extractRight" -> [heap |-> Append(h, extractRight(h, A)), ref |-> Len(h) + 1]

\* The constraints of the second call: the edges in on get the extracted array.
extractedEdges(e, on) ==
    [heap |-> e.heap, refs |-> [i \in 1..4 |-> IF i \in on THEN e.ref ELSE Null]]

\* The edges a second call constrains: one of them, or all four.
EdgeSets == {{i} : i \in 1..4} \cup {1..4}

\* The call was within the documented ranges and returned.
ValidCall(g) ==
    /\ ~g.threw
    /\ g.detail >= 1
    /\ g.roughness > 0
    /\ \A ref \in {g.top, g.bottom, g.left, g.right} :
          ref # Null => Len(g.h0[ref].elems) = Side(g.detail)

\* The call had no constraint, or the same vector as each of the four.
Uniform(g) ==
    \/ g.top = Null /\ g.bottom = Null /\ g.left = Null /\ g.right = Null
    \/ /\ g.top # Null /\ g.bottom # Null /\ g.left # Null /\ g.right # Null
       /\ g.h0[g.bottom] = g.h0[g.top]
       /\ g.h0[g.left] = g.h0[g.top]
       /\ g.h0[g.right] = g.h0[g.top]

\* The second call: A is what the first returned, if that was within the
\* documented ranges and Uniform; an edge of A is extracted and passed as the
\* constraint of the edges in on.
Generate2 ==
    /\ gen.phase = "first"
    /\ ValidCall(gen)
    /\ Uniform(gen)
    /\ \E from \in ExtractNames, on \in EdgeSets :
          generateWith("second", gen.detail, gen.roughness,
                       extractedEdges(extracted(heap, from, gen.ret), on), from, gen.ret)
    /\ UNCHANGED <<chunkHeights, meshes, AIRCRAFT, todo, last, frame, run, tick>>

\* The first call made once more: the same detail and roughness and the same
\* four arrays, Math.random being where the first call left it.
GenerateAgain ==
    /\ gen.phase = "first"
    /\ ValidCall(gen)
    /\ gen.top # Null /\ gen.bottom # Null /\ gen.left # Null /\ gen.right # Null
    /\ generateWith("again", gen.detail, gen.roughness,
                    [heap |-> heap, refs |-> <<gen.top, gen.bottom, gen.left, gen.right>>],
                    "caller", gen.ret)
    /\ UNCHANGED <<chunkHeights, meshes, AIRCRAFT, todo, last, frame, run, tick>>

NextGen ==
    \/ Generate1
    \/ Generate2
    \/ GenerateAgain

SpecGen == Init /\ [][NextGen]_vars

----------------------------------------------------------------------------
(* generateTerrain followed statement by statement: the corners, each entry *)
(* of divide, each assignment of its two loops, the filter, the forcing.    *)
(* run.reads and run.writes collect the <<row, column>> index pairs the     *)
(* call has used on a grid (map, src, dst, smoothed), run.vec the indices   *)
(* it has used on a constraint array.                                       *)

\* What the nested functions of the followed call close over, on heap h.
closure(r, h) ==
    [max |-> 2^r.detail, roughness |-> r.roughness, top |-> r.top, bottom |-> r.bottom,
     left |-> r.left, right |-> r.right, heap |-> h]

\* The constraints <<top, bottom, left, right>> of a followed call: the edges in
\* on are given, neighbouring edges get different vectors of the caller's.
StepConstraints(detail) ==
    {[i \in 1..4 |-> IF i \in on
                     THEN [given |-> TRUE,
                           elems |-> Vec(((i + shift) % NumVecs) + 1, Side(detail))]
                     ELSE NoEdge] : on \in SUBSET (1..4), shift \in 1..NumVecs}

\* The places of a sequence, as a set.
Places(places) == {places[k] : k \in 1..Len(places)}

\* r with more index pairs read and written and more constraint indices read.
Touch(r, reads, writes, vec) ==
    [r EXCEPT !.reads = @ \cup reads, !.writes = @ \cup writes, !.vec = @ \cup vec]

\* Lines 40-43: the cells assigned.
seedWrites(max) == {<<0, 0>>, <<max, 0>>, <<max, max>>, <<0, max>>}

\* Lines 40-43: the indices read of the constraint arrays.
seedVec(c) ==
    (IF c.top # Null \/ c.right # Null THEN {0} ELSE {})
    \cup (IF c.bottom # Null THEN {0} ELSE IF c.right # Null THEN {c.max} ELSE {})
    \cup (IF c.bottom # Null \/ c.left # Null THEN {c.max} ELSE {})
    \cup (IF c.top # Null THEN {c.max} ELSE IF c.left # Null THEN {0} ELSE {})

\* Lines 74-77: the constraint array and the index the diamond loop takes
\* map[x][y] from, <<Null, 0>> when it computes the cell.
diamondSource(c, x, y) ==
    IF c.top # Null /\ x = 0 THEN <<c.top, y>>
    ELSE IF c.bottom # Null /\ x = c.max THEN <<c.bottom, y>>
    ELSE IF c.left # Null /\ y = c.max THEN <<c.left, x>>
    ELSE IF c.right # Null /\ y = 0 THEN <<c.right, x>>
    ELSE <<Null, 0>>

\* median3Filter: every cell of src it reads, and every cell of dst it assigns.
filterReads(N) == UNION {Places(filterPlaces(r, q, N - 1)) : r \in 0..(N - 1), q \in 0..(N - 1)}
filterWrites(N) == (0..(N - 1)) \X (0..(N - 1))

\* Lines 53-56: the cells of smoothed assigned, and the constraint indices read.
forceWrites(c) ==
    (IF c.top # Null THEN {<<0, y>> : y \in 0..c.max} ELSE {})
    \cup (IF c.bottom # Null THEN {<<c.max, y>> : y \in 0..c.max} ELSE {})
    \cup (IF c.left # Null THEN {<<x, c.max>> : x \in 0..c.max} ELSE {})
    \cup (IF c.right # Null THEN {<<x, 0>> : x \in 0..c.max} ELSE {})
forceVec(c) ==
    IF c.top # Null \/ c.bottom # Null \/ c.left # Null \/ c.right # Null
    THEN 0..c.max ELSE {}

\* The followed call is at r1; a TypeError ends it.
afterStep(r1) ==
    /\ run' = IF r1.st.threw THEN [r1 EXCEPT !.pc = "threw"] ELSE r1
    /\ rng' = r1.st.rng
    /\ tick' = 1 - tick

\* Lines 33-43: the call has made its map and seeded the corners.
seeded(detail, roughness, refs, h, r0) ==
    LET size == 2^detail + 1
        c == [max |-> size - 1, roughness |-> roughness, top |-> refs[1],
              bottom |-> refs[2], left |-> refs[3], right |-> refs[4], heap |-> h]
    IN  [pc |-> "divide", detail |-> detail, roughness |-> roughness,
         top |-> refs[1], bottom |-> refs[2], left |-> refs[3], right |-> refs[4],
         st |-> seedCorners([map |-> [i \in 1..size |-> NewFloat32Array(size).elems],
                             rng |-> r0, threw |-> FALSE], c, Div(Mul(roughness, size), 2)),
         sz |-> size - 1, cells |-> <<>>, k |-> 0, entered |-> <<>>, passes |-> <<>>,
         reads |-> {}, writes |-> seedWrites(size - 1), vec |-> seedVec(c),
         smoothed |-> <<>>, r0 |-> r0]

called(detail, roughness, a) ==
    /\ heap' = a.heap
    /\ afterStep(seeded(detail, roughness, a.refs, a.heap, rng))

\* generateTerrain(detail, roughness, {top, bottom, left, right}) is called and
\* runs up to divide(max).
CallGenerateTerrain ==
    /\ run.pc = "idle"
    /\ \E detail \in 1..MaxDetail, roughness \in {DEFAULT_ROUGHNESS, CHUNK_ROUGHNESS} :
          \E es \in StepConstraints(detail) :
             called(detail, roughness, allocEdges(heap, es))
    /\ UNCHANGED <<chunkHeights, meshes, AIRCRAFT, todo, last, frame, gen>>

\* A faulty divide: it returns when half < 2.
enteredReturnsEarly(r) ==
    IF r.sz < 4
    THEN [r EXCEPT !.pc = "filter", !.entered = Append(@, r.sz)]
    ELSE [r EXCEPT !.pc = "square", !.entered = Append(@, r.sz),
                   !.cells = squareCells(r.sz \div 2, r.sz, 2^r.detail), !.k = 1]

\* Lines 60-63: divide(sz) is entered; it returns when half < 1 (and with it all
\* the calls it is nested in, which have nothing left to do), else starts its
\* square loop.
entered(r) ==
    IF r.sz < 2
    THEN [r EXCEPT !.pc = "filter", !.entered = Append(@, r.sz)]
    ELSE [r EXCEPT !.pc = "square", !.entered = Append(@, r.sz),
                   !.cells = squareCells(r.sz \div 2, r.sz, 2^r.detail), !.k = 1]

EnterDivide ==
    /\ run.pc = "divide"
    /\ afterStep(entered(run))
    /\ UNCHANGED <<heap, chunkHeights, meshes, AIRCRAFT, todo, last, frame, gen>>

\* Lines 65-70: one assignment of the square loop; after the last the diamond
\* loop starts.
squared(r, c, x, y, half) ==
    Touch([r EXCEPT !.st = squareStep(r.st, c, x, y, half, Mul(r.roughness, r.sz)),
                    !.pc = IF r.k < Len(r.cells) THEN "square" ELSE "diamond",
                    !.k = IF r.k < Len(r.cells) THEN r.k + 1 ELSE 1,
                    !.cells = IF r.k < Len(r.cells) THEN @
                              ELSE diamondCells(0, half, r.sz, c.max)],
          Places(squarePlaces(x, y, half, c.max)), {<<x, y>>}, {})

SquareLoopStep ==
    /\ run.pc = "square"
    /\ afterStep(squared(run, closure(run, heap), run.cells[run.k][1], run.cells[run.k][2],
                         run.sz \div 2))
    /\ UNCHANGED <<heap, chunkHeights, meshes, AIRCRAFT, todo, last, frame, gen>>

\* Lines 72-82: one assignment of the diamond loop; after the last, divide(half)
\* is called.
diamonded(r, c, x, y, half, src) ==
    Touch([r EXCEPT !.st = diamondStep(r.st, c, x, y, half, Mul(r.roughness, r.sz)),
                    !.pc = IF r.k < Len(r.cells) THEN "diamond" ELSE "divide",
                    !.k = IF r.k < Len(r.cells) THEN r.k + 1 ELSE 0,
                    !.cells = IF r.k < Len(r.cells) THEN @ ELSE <<>>,
                    !.passes = IF r.k < Len(r.cells) THEN @ ELSE Append(@, r.sz),
                    !.sz = IF r.k < Len(r.cells) THEN @ ELSE half],
          IF src[1] = Null THEN Places(diamondPlaces(x, y, half, c.max)) ELSE {},
          {<<x, y>>},
          IF src[1] = Null THEN {} ELSE {src[2]})

DiamondLoopStep ==
    /\ run.pc = "diamond"
    /\ afterStep(diamonded(run, closure(run, heap), run.cells[run.k][1], run.cells[run.k][2],
                           run.sz \div 2,
                           diamondSource(closure(run, heap), run.cells[run.k][1],
                                         run.cells[run.k][2])))
    /\ UNCHANGED <<heap, chunkHeights, meshes, AIRCRAFT, todo, last, frame, gen>>

\* Line 49: smoothed = median3Filter(map), its rows new Float32Arrays.
filtered(dst) ==
    /\ heap' = heap \o [i \in 1..Len(dst) |-> [kind |-> "Float32Array", elems |-> dst[i]]]
    /\ afterStep(Touch([run EXCEPT !.pc = "force",
                                   !.smoothed = [i \in 1..Len(dst) |-> Len(heap) + i]],
                       filterReads(Len(dst)), filterWrites(Len(dst)), {}))

SmoothStep ==
    /\ run.pc = "filter"
    /\ filtered(median3Filter(run.st.map))
    /\ UNCHANGED <<chunkHeights, meshes, AIRCRAFT, todo, last, frame, gen>>

\* Lines 53-58: the given edges are forced on smoothed, which is returned.
ForceStep ==
    /\ run.pc = "force"
    /\ heap' = forceEdges(heap, run.smoothed, 2^run.detail,
                          run.top, run.bottom, run.left, run.right)
    /\ afterStep(Touch([run EXCEPT !.pc = "done"], {}, forceWrites(closure(run, heap)),
                       forceVec(closure(run, heap))))
    /\ UNCHANGED <<chunkHeights, meshes, AIRCRAFT, todo, last, frame, gen>>

NextSteps ==
    \/ CallGenerateTerrain
    \/ EnterDivide
    \/ SquareLoopStep
    \/ DiamondLoopStep
    \/ SmoothStep
    \/ ForceStep

\* A statement of the followed call is executed: what every step of NextSteps
\* does.
Statement == run.pc \notin {"done", "threw"} /\ tick' = 1 - tick

\* The call is synchronous, nothing else runs until it has returned or thrown:
\* while it has not, statements go on being executed.
SpecSteps == Init /\ [][NextSteps]_vars /\ WF_tick(Statement)

\* What the whole call returns, for the call followed.
WholeCall ==
    generateTerrain(SubSeq(heap, 1, Len(heap) - Len(run.smoothed)), run.r0, run.detail,
                    run.roughness, run.top, run.bottom, run.left, run.right)

\* The statements followed one by one end where generateTerrain as a whole does.
StepsAgree ==
    run.pc = "done" =>
        WholeCall = [heap |-> heap, rng |-> rng, threw |-> FALSE, ret |-> run.smoothed]

----------------------------------------------------------------------------
(* The properties.  Rows and columns are numbered from 0 as in the code.    *)

\* terrain[r], as the sequence of its cells.
RowOf(h, terrain, r) == h[terrain[r + 1]].elems

\* terrain[.][q], top to bottom.
ColumnOf(h, terrain, q) == [i \in 1..Len(terrain) |-> ReadElem(h, terrain[i], q)]

\* The last cell of every row, top to bottom.
LastColumnOf(h, terrain) ==
    [i \in 1..Len(terrain) |-> ReadElem(h, terrain[i], Len(h[terrain[i]].elems) - 1)]

\* The heightfield the last call of generateTerrain returned: its cell [r][q].
RetCell(r, q) == ReadElem(heap, gen.ret[r + 1], q)

\* Entry i of the constraint array ref as it was when generateTerrain was called,
\* and as a Float32Array cell holds it.
Supplied(ref, i) == ReadElem(gen.h0, ref, i)
SuppliedF32(ref, i) == ToFloat32(ReadElem(gen.h0, ref, i))

\* C1 as stated: after a call of generateTerrain within the documented ranges,
\* every constrained edge of the result (top = row 0, bottom = last row, left =
\* last column, right = first column) equals the supplied array at every index,
\* whatever the values and whether or not two constraints agree at a corner.
C1_EdgesEqualSupplied ==
    (gen.phase # "start" /\ ValidCall(gen)) =>
        /\ gen.top # Null => RowOf(heap, gen.ret, 0) = gen.h0[gen.top].elems
        /\ gen.bottom # Null => RowOf(heap, gen.ret, Len(gen.ret) - 1) = gen.h0[gen.bottom].elems
        /\ gen.left # Null => LastColumnOf(heap, gen.ret) = gen.h0[gen.left].elems
        /\ gen.right # Null => ColumnOf(heap, gen.ret, 0) = gen.h0[gen.right].elems

\* C1 as the code has it: after a call of generateTerrain within the documented
\* ranges, a constrained left (last column) or right (first column) edge holds
\* the supplied array at every index; a constrained top (row 0) or bottom (last
\* row) edge holds the supplied array at every index but the corners it shares
\* with a constrained left or right edge, where the column's entry stands.  Every
\* value is held as a float32 (the supplied value itself when it is one).
C1_EdgesEqualColumnsLast ==
    (gen.phase # "start" /\ ValidCall(gen)) =>
        LET max == Len(gen.ret) - 1
        IN  /\ gen.left # Null =>
                 \A i \in 0..max : RetCell(i, max) = SuppliedF32(gen.left, i)
            /\ gen.right # Null =>
                 \A i \in 0..max : RetCell(i, 0) = SuppliedF32(gen.right, i)
            /\ gen.top # Null =>
                 \A j \in 0..max :
                    RetCell(0, j) = IF j = 0 /\ gen.right # Null THEN SuppliedF32(gen.right, 0)
                                    ELSE IF j = max /\ gen.left # Null
                                    THEN SuppliedF32(gen.left, 0)
                                    ELSE SuppliedF32(gen.top, j)
            /\ gen.bottom # Null =>
                 \A j \in 0..max :
                    RetCell(max, j) = IF j = 0 /\ gen.right # Null
                                      THEN SuppliedF32(gen.right, max)
                                      ELSE IF j = max /\ gen.left # Null
                                      THEN SuppliedF32(gen.left, max)
                                      ELSE SuppliedF32(gen.bottom, j)

\* A call with top and right constrained by arrays that differ at index 0, and
\* with a value that is no float32: the corner holds right[0].
C1_Witness ==
    /\ gen.phase = "first" /\ ValidCall(gen) /\ gen.detail > 1
    /\ gen.top # Null /\ gen.right # Null
    /\ Supplied(gen.top, 0) # Supplied(gen.right, 0)
    /\ RetCell(0, 0) = Supplied(gen.right, 0)
    /\ SuppliedF32(gen.top, 1) # Supplied(gen.top, 1)
    /\ RetCell(0, 1) = SuppliedF32(gen.top, 1)

\* C2: whenever generateNeighboringChunks has returned, every two axis-adjacent
\* stored chunks agree on their whole border: row 0 of (x, y) is the last row of
\* (x, y + 1), and column 0 of (x, y) is the last column of (x + 1, y).
C2_SeamInvariant ==
    todo = <<>> =>
        \A k \in DOMAIN chunkHeights :
            /\ <<k[1], k[2] + 1>> \in DOMAIN chunkHeights =>
                  RowOf(heap, chunkHeights[k], 0)
                     = RowOf(heap, chunkHeights[<<k[1], k[2] + 1>>],
                             Len(chunkHeights[<<k[1], k[2] + 1>>]) - 1)
            /\ <<k[1] + 1, k[2]>> \in DOMAIN chunkHeights =>
                  ColumnOf(heap, chunkHeights[k], 0)
                     = LastColumnOf(heap, chunkHeights[<<k[1] + 1, k[2]>>])

\* What addTerrainChunk must pass for the neighbour at key: nothing if it is
\* not stored, else the given row or column of it.
ExpectedEdge(key, part) ==
    IF key \notin DOMAIN chunkHeights THEN [given |-> FALSE, elems |-> <<>>]
    ELSE [given |-> TRUE,
          elems |-> CASE part = "lastRow" ->
                              RowOf(heap, chunkHeights[key], Len(chunkHeights[key]) - 1)
                      [] part = "firstRow" -> RowOf(heap, chunkHeights[key], 0)
                      [] part = "firstColumn" -> ColumnOf(heap, chunkHeights[key], 0)
                      [] part = "lastColumn" -> LastColumnOf(heap, chunkHeights[key])]

\* C3: when addTerrainChunk(x, y) generates a chunk, the constraints it passes
\* are those of the four axis neighbours alone: top is the last row of (x, y + 1),
\* bottom is row 0 of (x, y - 1), left is the first column of (x - 1, y), right is
\* the last column of (x + 1, y), each absent exactly when that chunk is not
\* stored.
C3_EdgeResolution ==
    [][(last'.n # last.n /\ last'.invoked) =>
          /\ last'.passed.top = ExpectedEdge(<<last'.x, last'.y + 1>>, "lastRow")
          /\ last'.passed.bottom = ExpectedEdge(<<last'.x, last'.y - 1>>, "firstRow")
          /\ last'.passed.left = ExpectedEdge(<<last'.x - 1, last'.y>>, "firstColumn")
          /\ last'.passed.right = ExpectedEdge(<<last'.x + 1, last'.y>>, "lastColumn")]_vars

\* A chunk generated with a neighbour below and a neighbour to the right, and
\* none above or to the left.
C3_Witness ==
    /\ last.invoked
    /\ last.passed.bottom.given /\ last.passed.right.given
    /\ ~last.passed.top.given /\ ~last.passed.left.given
    /\ last.passed.bottom.elems # last.passed.right.elems

\* The second call constrained one edge only.
SingleEdge(g) == Cardinality({i \in 1..4 : <<g.top, g.bottom, g.left, g.right>>[i] # Null}) = 1

\* C4: when B is generated with the single constraint X = E, E extracted from a
\* heightfield A, then extractX(B) is E at every index; and with top =
\* extractBottom(A), extractTop(B) is extractBottom(A).
C4_SeamRoundTrip ==
    (gen.phase = "second" /\ SingleEdge(gen)) =>
        /\ ~gen.threw
        /\ gen.top # Null => heap[extractTop(gen.ret)].elems = gen.h0[gen.top].elems
        /\ gen.bottom # Null => heap[extractBottom(gen.ret)].elems = gen.h0[gen.bottom].elems
        /\ gen.left # Null => extractLeft(heap, gen.ret).elems = gen.h0[gen.left].elems
        /\ gen.right # Null => extractRight(heap, gen.ret).elems = gen.h0[gen.right].elems
        /\ (gen.top # Null /\ gen.from = "extractBottom") =>
              heap[extractTop(gen.ret)].elems = heap[extractBottom(gen.A)].elems

\* B generated with left = extractLeft(A), A's last column not being constant:
\* B's last column is A's.
C4_Witness ==
    /\ gen.phase = "second" /\ SingleEdge(gen) /\ gen.left # Null
    /\ gen.from = "extractLeft"
    /\ LastColumnOf(heap, gen.ret) = LastColumnOf(heap, gen.A)
    /\ LastColumnOf(heap, gen.A) # ColumnOf(heap, gen.A, 0)
    /\ \E i \in 1..Len(gen.A) : LastColumnOf(heap, gen.A)[i] # LastColumnOf(heap, gen.A)[1]

\* C5: addTerrainChunk(x, y) for a stored coordinate does nothing: the entry is
\* the same object with the same values, generateTerrain is not invoked (no
\* random number is drawn), no other entry changes, and no mesh is added.
C5_AddExistingIsNoOp ==
    [][(last'.n # last.n /\ Stored(chunkHeights, <<last'.x, last'.y>>)) =>
          /\ ~last'.invoked
          /\ chunkHeights' = chunkHeights
          /\ heap' = heap
          /\ meshes' = meshes
          /\ rng' = rng]_vars

\* addTerrainChunk was called for a coordinate that was stored.
C5_Witness ==
    /\ last.n > 0 /\ last.existed /\ ~last.invoked
    /\ Stored(chunkHeights, <<last.x, last.y>>)
    /\ Len(meshes) = Cardinality(DOMAIN chunkHeights)

\* C6: once generateNeighboringChunks(x, y) has returned, the nine chunks
\* (x + dx, y + dy), dx and dy in -1..1, are stored.
C6_NeighbourhoodComplete ==
    (todo = <<>> /\ Len(frame.centre) = 2) =>
        \A dx \in (0 - 1)..1, dy \in (0 - 1)..1 :
            Stored(chunkHeights, <<frame.centre[1] + dx, frame.centre[2] + dy>>)

\* generateNeighboringChunks has returned for a second centre, the store not
\* having been empty.
C6_Witness ==
    /\ todo = <<>> /\ Len(frame.centre) = 2 /\ frame.centre # <<0, 0>>
    /\ Cardinality(DOMAIN chunkHeights) > 9
    /\ Stored(chunkHeights, <<frame.centre[1] + 1, frame.centre[2] + 1>>)

\* C7: the stored coordinates only grow and every entry keeps its rows and
\* their values; and when a chunk is generated, the arrays passed as its
\* constraints (rows of stored chunks among them) hold afterwards what they
\* held when passed.
C7_StoredChunksFrozen ==
    [][/\ \A k \in DOMAIN chunkHeights :
             /\ k \in DOMAIN chunkHeights'
             /\ chunkHeights'[k] = chunkHeights[k]
             /\ \A i \in 1..Len(chunkHeights[k]) :
                   heap'[chunkHeights[k][i]] = heap[chunkHeights[k][i]]
       /\ (last'.n # last.n /\ last'.invoked) =>
             /\ last'.after.top = last'.passed.top.elems
             /\ last'.after.bottom = last'.passed.bottom.elems
             /\ last'.after.left = last'.passed.left.elems
             /\ last'.after.right = last'.passed.right.elems]_vars

\* A chunk was generated with the last row of the stored chunk above it as its
\* top: it has that row, and the chunk above still has it.
C7_Witness ==
    /\ last.invoked /\ ~last.threw /\ last.passed.top.given
    /\ Stored(chunkHeights, <<last.x, last.y + 1>>)
    /\ RowOf(heap, chunkHeights[<<last.x, last.y + 1>>],
             Len(chunkHeights[<<last.x, last.y + 1>>]) - 1) = last.passed.top.elems
    /\ last.after.top = last.passed.top.elems

\* C8 as stated: for stored chunks (x, y) and (x + 1, y), the first column of
\* (x + 1, y) is the last column of (x, y).
C8_FirstColumnOfRightChunk ==
    \A k \in DOMAIN chunkHeights :
        <<k[1] + 1, k[2]>> \in DOMAIN chunkHeights =>
            ColumnOf(heap, chunkHeights[<<k[1] + 1, k[2]>>], 0)
               = LastColumnOf(heap, chunkHeights[k])

\* C8 as the code has it: for stored chunks (x, y) and (x + 1, y), the last
\* column of (x + 1, y) is the first column of (x, y), at every index.
C8_LastColumnOfRightChunk ==
    \A k \in DOMAIN chunkHeights :
        <<k[1] + 1, k[2]>> \in DOMAIN chunkHeights =>
            LastColumnOf(heap, chunkHeights[<<k[1] + 1, k[2]>>])
               = ColumnOf(heap, chunkHeights[k], 0)

\* (0, 0) and (1, 0) are stored, the columns of (0, 0) differ, and the last
\* column of (1, 0) is the first one of (0, 0).
C8_Witness ==
    /\ Stored(chunkHeights, <<0, 0>>) /\ Stored(chunkHeights, <<1, 0>>)
    /\ ColumnOf(heap, chunkHeights[<<0, 0>>], 0) # LastColumnOf(heap, chunkHeights[<<0, 0>>])
    /\ LastColumnOf(heap, chunkHeights[<<1, 0>>]) = ColumnOf(heap, chunkHeights[<<0, 0>>], 0)

WrongLengthGiven(g) ==
    \E ref \in {g.top, g.bottom, g.left, g.right} :
        ref # Null /\ Len(g.h0[ref].elems) # Side(g.detail)

BoundaryOf(h, terrain) ==
    [r \in 1..Len(terrain) |->
       [q \in 1..Len(terrain) |->
          IF r = 1 \/ r = Len(terrain) \/ q = 1 \/ q = Len(terrain)
          THEN ReadElem(h, terrain[r], q - 1) ELSE 0]]

\* The inner cells of the heightfield terrain, row by row.
InteriorOf(h, terrain) ==
    [r \in 2..(Len(terrain) - 1) |->
       [q \in 2..(Len(terrain) - 1) |-> ReadElem(h, terrain[r], q - 1)]]

\* C11: two calls of generateTerrain with the same detail and the same four
\* constraint arrays return heightfields with the same row 0, last row, column
\* 0 and last column, whatever each call draws from Math.random.
C11_BoundaryDeterminism ==
    gen.phase = "again" =>
        /\ ~gen.threw
        /\ Len(gen.ret) = Len(gen.A)
        /\ BoundaryOf(heap, gen.ret) = BoundaryOf(heap, gen.A)

\* Two such calls whose heightfields differ inside, the four arrays not having
\* agreed at the corner of row 0 and column 0.
C11_Witness ==
    /\ gen.phase = "again" /\ ~gen.threw
    /\ Supplied(gen.top, 0) # Supplied(gen.right, 0)
    /\ BoundaryOf(heap, gen.ret) = BoundaryOf(heap, gen.A)
    /\ InteriorOf(heap, gen.ret) # InteriorOf(heap, gen.A)

\* C12: addTerrainChunk(x, y) for a coordinate that is not stored completes
\* without error whichever of its four axis neighbours are missing, passes null
\* for each missing one, and stores a new heightfield at (x, y).
C12_MissingNeighboursAreNoError ==
    [][(last'.n # last.n /\ ~Stored(chunkHeights, <<last'.x, last'.y>>)) =>
          /\ ~last'.threw
          /\ last'.invoked
          /\ ~Stored(chunkHeights, <<last'.x, last'.y + 1>>) => ~last'.passed.top.given
          /\ ~Stored(chunkHeights, <<last'.x, last'.y - 1>>) => ~last'.passed.bottom.given
          /\ ~Stored(chunkHeights, <<last'.x - 1, last'.y>>) => ~last'.passed.left.given
          /\ ~Stored(chunkHeights, <<last'.x + 1, last'.y>>) => ~last'.passed.right.given
          /\ Stored(chunkHeights', <<last'.x, last'.y>>)
          /\ Len(chunkHeights'[<<last'.x, last'.y>>]) = 2^ChunkDetail + 1
          /\ \A i \in 1..(2^ChunkDetail + 1) :
                /\ chunkHeights'[<<last'.x, last'.y>>][i] > Len(heap)
                /\ Len(heap'[chunkHeights'[<<last'.x, last'.y>>][i]].elems) = 2^ChunkDetail + 1]_vars

\* A chunk was generated and stored with none of its four axis neighbours
\* stored, the store holding other chunks.
C12_Witness ==
    /\ last.n > 0 /\ last.invoked /\ ~last.threw
    /\ ~last.passed.top.given /\ ~last.passed.bottom.given
    /\ ~last.passed.left.given /\ ~last.passed.right.given
    /\ Stored(chunkHeights, <<last.x, last.y>>)
    /\ ~Stored(chunkHeights, <<last.x, last.y + 1>>)
    /\ ~Stored(chunkHeights, <<last.x - 1, last.y>>)
    /\ Cardinality(DOMAIN chunkHeights) > 1

\* The offsets in the order C13 gives them: the centre, then the eight others.
C13_Order ==
    << <<0, 0>>, <<1, 0>>, <<-1, 0>>, <<0, 1>>, <<0, -1>>,
       <<1, 1>>, <<-1, -1>>, <<1, -1>>, <<-1, 1>> >>

\* The axis neighbours of <<x, y>>.
AxisNeighbours(x, y) == {<<x, y + 1>>, <<x, y - 1>>, <<x - 1, y>>, <<x + 1, y>>}

\* C13: within one call generateNeighboringChunks(x, y) the requests come in a
\* fixed order: the centre, then (the centre once more, which does nothing, and)
\* the offsets (1,0), (-1,0), (0,1), (0,-1), (1,1), (-1,-1), (1,-1), (-1,1).  So
\* when a diagonal neighbour is requested the four cardinal ones are stored, and
\* a chunk generated in the call is constrained by every axis neighbour stored
\* by then.
C13_GenerationOrder ==
    [][last'.n # last.n =>
          LET p == 11 - Len(todo)
              cx == frame.centre[1]
              cy == frame.centre[2]
          IN  /\ p \in 1..10
              /\ <<last'.x - cx, last'.y - cy>> = C13_Order[IF p = 1 THEN 1 ELSE p - 1]
              /\ p > 6 => AxisNeighbours(cx, cy) \subseteq DOMAIN chunkHeights
              /\ last'.invoked =>
                    /\ last'.passed.top.given = Stored(chunkHeights, <<last'.x, last'.y + 1>>)
                    /\ last'.passed.bottom.given = Stored(chunkHeights, <<last'.x, last'.y - 1>>)
                    /\ last'.passed.left.given = Stored(chunkHeights, <<last'.x - 1, last'.y>>)
                    /\ last'.passed.right.given = Stored(chunkHeights, <<last'.x + 1, last'.y>>)]_vars

\* The diagonal neighbour at offset (1, 1) was generated, sixth of the nine chunks,
\* constrained by the cardinal neighbours below it and to its left.
C13_Witness ==
    /\ last.n > 0 /\ last.invoked /\ Len(todo) = 3
    /\ last.x = frame.centre[1] + 1 /\ last.y = frame.centre[2] + 1
    /\ last.passed.bottom.given /\ last.passed.left.given
    /\ AxisNeighbours(frame.centre[1], frame.centre[2]) \subseteq DOMAIN chunkHeights

\* c is the floor of v / SQUARE_SIZE.
IsChunkOf(c, v) == c * SQUARE_SIZE <= v /\ v < (c + 1) * SQUARE_SIZE

\* The frame's run of animate called generateNeighboringChunks once, for the
\* chunk the position <<px, pz>> is in.
CalledOnceFor(fr, requests) ==
    /\ Len(fr.centre) = 2
    /\ IsChunkOf(fr.centre[1], fr.px)
    /\ IsChunkOf(fr.centre[2], fr.pz)
    /\ Len(requests) = 10
    /\ requests[1] = fr.centre
    /\ \A k \in 2..10 : requests[k] = <<fr.centre[1] + C13_Order[k - 1][1],
                                        fr.centre[2] + C13_Order[k - 1][2]>>

\* C14 as stated: every run of animate maps the position to chunkX = floor(x /
\* SQUARE_SIZE), chunkY = floor(z / SQUARE_SIZE) and calls
\* generateNeighboringChunks(chunkX, chunkY) exactly once.
C14_EveryTickExpands ==
    [][frame'.n # frame.n => CalledOnceFor(frame', todo')]_vars

\* C14 as the code has it: a run of animate with AIRCRAFT set maps the position
\* to chunkX = floor(x / SQUARE_SIZE), chunkY = floor(z / SQUARE_SIZE), rounding
\* toward minus infinity, and calls generateNeighboringChunks(chunkX, chunkY)
\* exactly once; a run before the aircraft is loaded calls nothing and leaves
\* the store as it is.
C14_TickExpandsOnceLoaded ==
    [][frame'.n # frame.n =>
          IF AIRCRAFT = "loaded"
          THEN CalledOnceFor(frame', todo')
          ELSE todo' = <<>> /\ frame'.centre = <<>> /\ chunkHeights' = chunkHeights]_vars

\* A frame with the aircraft at a negative x: the chunk is the one to the left
\* of the origin, and its neighbourhood is requested.
C14_Witness ==
    /\ AIRCRAFT = "loaded" /\ frame.n > 0
    /\ frame.px < 0 /\ frame.px > 0 - SQUARE_SIZE
    /\ frame.centre = <<0 - 1, 0>>
    /\ Len(todo) = 10

\* The index pairs the followed call has used on a grid, reading or writing.
Used == run.reads \cup run.writes

\* C15 as stated: a call with detail = 1 completes with the corner seeding, one
\* square and diamond pass and the filter, and every index it reads or writes,
\* the row and the column index of every grid access and every index into a
\* constraint array, lies in 0..2.
C15_AllIndicesInBounds ==
    (run.pc # "idle" /\ run.detail = 1) =>
        /\ run.pc # "threw"
        /\ run.pc = "done" => run.passes = <<2>>
        /\ \A p \in Used : p[1] \in 0..2 /\ p[2] \in 0..2
        /\ run.vec \subseteq 0..2

\* C15 as the code has it: a call with detail = 1 completes with the corner
\* seeding, one square and diamond pass and the filter; every index it writes,
\* every row index and every index into a constraint array lies in 0..2; the
\* column index of a read lies in -1..3, and the reads past a row's ends are
\* those of the diamond step: map[1][-1] when right is not constrained and
\* map[1][3] when left is not constrained.
C15_ColumnReadsPastTheEnds ==
    (run.pc # "idle" /\ run.detail = 1) =>
        /\ run.pc # "threw"
        /\ run.pc = "done" => run.passes = <<2>>
        /\ \A p \in run.writes : p[1] \in 0..2 /\ p[2] \in 0..2
        /\ \A p \in run.reads : p[1] \in 0..2 /\ p[2] \in (0 - 1)..3
        /\ run.vec \subseteq 0..2
        /\ run.pc \in {"filter", "force", "done"} =>
              {p \in run.reads : p[2] \notin 0..2} =
                  (IF run.right = Null THEN {<<1, 0 - 1>>} ELSE {})
                  \cup (IF run.left = Null THEN {<<1, 3>>} ELSE {})

\* A completed call with detail = 1 and no constraint on the right: the diamond
\* step has read map[1][-1].
C15_Witness ==
    /\ run.pc = "done" /\ run.detail = 1 /\ run.right = Null /\ run.left # Null
    /\ <<1, 0 - 1>> \in run.reads
    /\ <<1, 3>> \notin run.reads

\* 2^detail, 2^(detail - 1), ..., 2^low.
Halvings(detail, low) == [i \in 1..(detail + 1 - low) |-> 2^(detail + 1 - i)]

\* s is the beginning of t.
IsPrefix(s, t) == Len(s) <= Len(t) /\ s = SubSeq(t, 1, Len(s))

\* C16: a call of generateTerrain with detail >= 1 runs to completion: divide is
\* entered with sz = 2^detail, 2^(detail - 1), ..., 2, 1 in this order, makes a
\* square and a diamond pass for the detail levels with sz >= 2 and no other,
\* and returns at sz = 1 without calling itself again; no statement throws, and
\* the call made reaches its return.
C16_DivideTerminates ==
    /\ [](run.pc # "idle" =>
            /\ run.detail >= 1
            /\ run.pc # "threw"
            /\ IsPrefix(run.entered, Halvings(run.detail, 0))
            /\ IsPrefix(run.passes, Halvings(run.detail, 1))
            /\ run.pc \in {"square", "diamond"} =>
                  /\ run.sz >= 2 /\ run.entered = Append(run.passes, run.sz)
                  /\ run.k \in 1..Len(run.cells)
            /\ run.pc \in {"filter", "force", "done"} =>
                  /\ run.entered = Halvings(run.detail, 0)
                  /\ run.passes = Halvings(run.detail, 1))
    /\ (run.pc = "divide" /\ run.entered = <<>>) ~> (run.pc = "done")

\* A call with detail = 2 has returned: divide was entered with 4, 2 and 1 and
\* made its passes for 4 and 2.
C16_Witness ==
    /\ run.pc = "done" /\ run.detail = 2
    /\ run.entered = <<4, 2, 1>>
    /\ run.passes = <<4, 2>>

\* The followed call has seeded its corners and not yet entered divide.
Seeded == run.pc = "divide" /\ run.entered = <<>>

\* The cell map[x][y] of the followed call.
MapCell(x, y) == run.st.map[x + 1][y + 1]

\* The values rand(scale) can take, as a Float32Array cell holds them.
RandomCells(scale) ==
    {ToFloat32((2 * r * scale) \div RandLevels - scale) : r \in 0..(RandLevels - 1)}

\* The corner v is seeded from the edge a at index ai if a is given, else from
\* b at index bi if b is given, else at random within [-scale, scale], where
\* scale = roughness * N / 2.
SeededFrom(v, a, ai, b, bi) ==
    LET scale == (run.roughness * (2^run.detail + 1)) \div 2
    IN  IF a # Null THEN v = ToFloat32(heap[a].elems[ai + 1])
        ELSE IF b # Null THEN v = ToFloat32(heap[b].elems[bi + 1])
        ELSE v \in RandomCells(scale) /\ 0 - scale <= v /\ v <= scale

\* C17 as stated: before subdivision each corner takes its value from a
\* constrained edge touching it, the top or right edge going before the bottom
\* or left edge where two touch (top before right at map[0][0], right before
\* bottom at map[max][0], top before left at map[0][max]); a corner no
\* constrained edge touches gets a random value in [-scale, scale].
C17_TopOrRightFirst ==
    Seeded =>
        LET max == 2^run.detail
        IN  /\ SeededFrom(MapCell(0, 0), run.top, 0, run.right, 0)
            /\ SeededFrom(MapCell(max, 0), run.right, max, run.bottom, 0)
            /\ \/ SeededFrom(MapCell(max, max), run.bottom, max, run.left, max)
               \/ SeededFrom(MapCell(max, max), run.left, max, run.bottom, max)
            /\ SeededFrom(MapCell(0, max), run.top, max, run.left, 0)

\* C17 as the code has it: before subdivision each corner takes its value from
\* a constrained edge touching it, the row edge (top or bottom) going before the
\* column edge (right or left) where two touch: top before right at map[0][0],
\* bottom before right at map[max][0], bottom before left at map[max][max], top
\* before left at map[0][max]; a corner no constrained edge touches gets a
\* random value in [-scale, scale], scale = roughness * N / 2.
C17_RowEdgeFirst ==
    Seeded =>
        LET max == 2^run.detail
        IN  /\ SeededFrom(MapCell(0, 0), run.top, 0, run.right, 0)
            /\ SeededFrom(MapCell(max, 0), run.bottom, 0, run.right, max)
            /\ SeededFrom(MapCell(max, max), run.bottom, max, run.left, max)
            /\ SeededFrom(MapCell(0, max), run.top, max, run.left, 0)

\* Corners seeded with bottom and right constrained and top and left not:
\* map[max][0] holds bottom[0], which is not right[max], and map[0][max] is random.
C17_Witness ==
    /\ Seeded
    /\ run.bottom # Null /\ run.right # Null /\ run.top = Null /\ run.left = Null
    /\ MapCell(2^run.detail, 0) = ToFloat32(heap[run.bottom].elems[1])
    /\ MapCell(2^run.detail, 0) # ToFloat32(heap[run.right].elems[2^run.detail + 1])
    /\ MapCell(0, 0) = ToFloat32(heap[run.right].elems[1])

\* The values of map in the 3x3 block around [r][q] that lies inside the grid,
\* row by row: 9 for an inner cell, 6 on an edge, 4 in a corner.
NeighbourValues(map, r, q) ==
    LET block == [k \in 1..9 |-> <<r - 1 + ((k - 1) \div 3), q - 1 + ((k - 1) % 3)>>]
        inside == SelectSeq(block, LAMBDA p : /\ p[1] >= 0 /\ p[1] < Len(map)
                                              /\ p[2] >= 0 /\ p[2] < Len(map))
    IN  [k \in 1..Len(inside) |-> map[inside[k][1] + 1][inside[k][2] + 1]]

\* The median of the numbers in values, in numeric order: the middle one, or
\* the mean of the two middle ones.
NumericMedian(values) ==
    LET sorted == SortNumeric(values)
        n == Len(sorted)
    IN  IF n % 2 = 1 THEN sorted[(n + 1) \div 2]
        ELSE (sorted[n \div 2] + sorted[n \div 2 + 1]) \div 2

\* C18: the smoothing pass leaves the grid it reads as it was and writes new
\* rows, and every cell it writes is the numeric median of the pre-filter values
\* in the cell's neighbourhood: 9 values for an inner cell, 6 for an edge cell
\* that is no corner, 4 for a corner.
C18_FilterIsNumericMedian ==
    [][(run.pc = "filter" /\ run'.pc = "force") =>
          /\ run'.st.map = run.st.map
          /\ \A i \in 1..Len(run'.smoothed) : run'.smoothed[i] \notin DOMAIN heap
          /\ Len(run'.smoothed) = Len(run.st.map)
          /\ \A r \in 0..(Len(run.st.map) - 1), q \in 0..(Len(run.st.map) - 1) :
                heap'[run'.smoothed[r + 1]].elems[q + 1] =
                    ToFloat32(NumericMedian(NeighbourValues(run.st.map, r, q)))]_vars

\* The constraints of the followed call that cover the cell [x][y], each with
\* the index matching the cell: <<array, index>>.
ConstraintsAt(x, y) ==
    LET max == 2^run.detail
    IN  {e \in {<<run.top, y, x = 0>>, <<run.bottom, y, x = max>>,
                <<run.left, x, y = max>>, <<run.right, x, y = 0>>} :
            e[1] # Null /\ e[3]}

\* The cell holds v: v as a float32, which is v itself when v is one, as every
\* value extracted from a heightfield is.
Holds(cell, v) == cell = ToFloat32(v) /\ (ToFloat32(v) = v => cell = v)

\* C19: at every level, a cell the diamond step assigns that lies on a
\* constrained edge (row 0 with top, last row with bottom, last column with
\* left, first column with right) gets the constraint's value at the matching
\* index, with no average and no random draw; so when divide has returned, every
\* cell of a constrained edge that is no corner holds its constraint.
C19_ConstrainedDiamondCells ==
    /\ [][run.pc = "diamond" =>
            LET x == run.cells[run.k][1]
                y == run.cells[run.k][2]
            IN  /\ ~(x \in {0, 2^run.detail} /\ y \in {0, 2^run.detail})
                /\ \A e \in ConstraintsAt(x, y) :
                      /\ Holds(run'.st.map[x + 1][y + 1], heap[e[1]].elems[e[2] + 1])
                      /\ run'.st.rng = run.st.rng
                      /\ run'.reads = run.reads]_vars
    /\ [](run.pc = "filter" =>
            \A x \in 0..(2^run.detail), y \in 0..(2^run.detail) :
               ~(x \in {0, 2^run.detail} /\ y \in {0, 2^run.detail}) =>
                  \A e \in ConstraintsAt(x, y) :
                     Holds(MapCell(x, y), heap[e[1]].elems[e[2] + 1]))

\* divide has returned in a call with detail 2 whose top is constrained by
\* float32 values: the three inner cells of row 0 are those of top, and another
\* row differs from it.
C19_Witness ==
    /\ run.pc = "filter" /\ run.detail = 2 /\ run.top # Null
    /\ \A y \in 1..3 : /\ ToFloat32(heap[run.top].elems[y + 1]) = heap[run.top].elems[y + 1]
                       /\ MapCell(0, y) = heap[run.top].elems[y + 1]
    /\ \E y \in 1..3 : MapCell(1, y) # MapCell(0, y)

\* The four axis-aligned neighbours of [x][y] at distance h, and those of them
\* inside the grid of the followed call.
AxisPlaces(x, y, h) == {<<x, y - h>>, <<x + h, y>>, <<x, y + h>>, <<x - h, y>>}
InsideGrid(places) ==
    {p \in places : p[1] \in 0..(2^run.detail) /\ p[2] \in 0..(2^run.detail)}

RECURSIVE SumOver(_)
\* The sum of the cells of map at places.
SumOver(places) ==
    IF places = {} THEN 0
    ELSE LET p == CHOOSE p \in places : TRUE
         IN  MapCell(p[1], p[2]) + SumOver(places \ {p})

\* The offset rand(scl) gives when Math.random is in state s.
OffsetDrawn(s, scl) == (2 * RandomValue(s) * scl) \div RandLevels - scl

\* C20: a cell the diamond step assigns that lies on no constrained edge gets
\* the average of those of its four axis-aligned neighbours at distance sz/2
\* that are inside the grid, four for an inner cell and three for a cell on one
\* of the four outer edges, plus one random offset in [-roughness*sz,
\* roughness*sz]; a neighbour outside the grid adds nothing to the sum and
\* nothing to the divisor.
C20_DiamondAverage ==
    [][(run.pc = "diamond" /\ ConstraintsAt(run.cells[run.k][1], run.cells[run.k][2]) = {}) =>
          LET x == run.cells[run.k][1]
              y == run.cells[run.k][2]
              max == 2^run.detail
              scl == run.roughness * run.sz
              near == InsideGrid(AxisPlaces(x, y, run.sz \div 2))
              offset == OffsetDrawn(run.st.rng, scl)
          IN  /\ Cardinality(near) = IF x \in {0, max} \/ y \in {0, max} THEN 3 ELSE 4
              /\ 0 - scl <= offset /\ offset <= scl
              /\ run'.st.rng = RandomNext(run.st.rng)
              /\ run'.st.map[x + 1][y + 1] =
                    ToFloat32(offset + (SumOver(near) \div Cardinality(near)))
              /\ \A p \in DOMAIN run.st.map, q \in DOMAIN run.st.map :
                    <<p, q>> # <<x + 1, y + 1>> => run'.st.map[p][q] = run.st.map[p][q]]_vars

\* The diamond step has just computed the cell [x][0] of an unconstrained first
\* column at the level sz = 2 of a call with detail 2: it read the neighbour
\* [x][-1] outside the grid, and the cell holds a value.
C20_Witness ==
    /\ run.pc = "diamond" /\ run.detail = 2 /\ run.sz = 2 /\ run.k >= 2
    /\ run.right = Null
    /\ run.cells[run.k - 1][2] = 0
    /\ <<run.cells[run.k - 1][1], 0 - 1>> \in run.reads
    /\ MapCell(run.cells[run.k - 1][1], 0) # 0

\* The centres of the sz x sz sub-squares of the followed call's grid.
Centres(sz) ==
    {<<i * sz + sz \div 2, j * sz + sz \div 2>> :
        i \in 0..((2^run.detail) \div sz - 1), j \in 0..((2^run.detail) \div sz - 1)}

\* The four diagonal neighbours of [x][y] at distance h.
DiagonalPlaces(x, y, h) ==
    {<<x - h, y - h>>, <<x + h, y - h>>, <<x + h, y + h>>, <<x - h, y + h>>}

\* C21: at every level sz the square step assigns exactly the centres of the
\* sz x sz sub-squares, each once; such a centre is strictly inside the grid with
\* its four diagonal corners at distance sz/2 inside the grid, and gets the
\* average of these four plus one random offset in [-roughness*sz,
\* roughness*sz]; the two-corner case of square() is taken by no cell.
C21_SquareStep ==
    /\ [](run.pc = "square" =>
            /\ Places(run.cells) = Centres(run.sz)
            /\ Len(run.cells) = Cardinality(Centres(run.sz)))
    /\ [][run.pc = "square" =>
            LET x == run.cells[run.k][1]
                y == run.cells[run.k][2]
                max == 2^run.detail
                half == run.sz \div 2
                scl == run.roughness * run.sz
                offset == OffsetDrawn(run.st.rng, scl)
            IN  /\ x > 0 /\ x < max /\ y > 0 /\ y < max
                /\ ~(x < half) /\ ~(x > max - half)
                /\ InsideGrid(DiagonalPlaces(x, y, half)) = DiagonalPlaces(x, y, half)
                /\ Cardinality(DiagonalPlaces(x, y, half)) = 4
                /\ 0 - scl <= offset /\ offset <= scl
                /\ run'.st.rng = RandomNext(run.st.rng)
                /\ run'.st.map[x + 1][y + 1] =
                      ToFloat32(offset + (SumOver(DiagonalPlaces(x, y, half)) \div 4))
                /\ \A p \in DOMAIN run.st.map, q \in DOMAIN run.st.map :
                      <<p, q>> # <<x + 1, y + 1>> => run'.st.map[p][q] = run.st.map[p][q]]_vars

\* The square step of the level sz = 2 of a call with detail 2 has assigned its
\* first three centres and is at the fourth.
C21_Witness ==
    /\ run.pc = "square" /\ run.detail = 2 /\ run.sz = 2 /\ run.k = 4
    /\ run.cells[run.k] = <<3, 3>>
    /\ MapCell(1, 1) # 0 /\ MapCell(3, 1) # 0
    /\ MapCell(3, 3) = 0

\* Every cell of the followed call's grid.
AllCells == (0..(2^run.detail)) \X (0..(2^run.detail))

\* C22: when subdivision finishes every one of the N*N cells has been assigned
\* exactly once: the four corners by the seeding, every other cell by one
\* assignment of a square or a diamond step at one level; before the filter no
\* cell is assigned a second time and none is left out.
C22_FullPopulation ==
    /\ [](Seeded => run.writes = seedWrites(2^run.detail) /\ Cardinality(run.writes) = 4)
    /\ [][run.pc \in {"square", "diamond"} =>
            /\ run.cells[run.k] \notin run.writes
            /\ run.cells[run.k] \in AllCells
            /\ run'.writes = run.writes \cup {run.cells[run.k]}
            /\ \A p \in DOMAIN run.st.map, q \in DOMAIN run.st.map :
                  <<p - 1, q - 1>> # run.cells[run.k] => run'.st.map[p][q] = run.st.map[p][q]]_vars
    /\ [][run.pc = "divide" => run'.writes = run.writes /\ run'.st.map = run.st.map]_vars
    /\ [](run.pc = "filter" => run.writes = AllCells)

\* Subdivision has finished in a call with detail 2: 25 cells are assigned.
C22_Witness ==
    /\ run.pc = "filter" /\ run.detail = 2
    /\ Cardinality(run.writes) = 25
    /\ run.passes = <<4, 2>>

\* The cell [r][q] of the heightfield the followed call returns.
Returned(r, q) == heap[run.smoothed[r + 1]].elems[q + 1]

\* The corners of the followed call's grid, each with the row edge and the
\* column edge that meet there and the index of the corner in either:
\* <<r, q, row edge, index, column edge, index>>.
CornerEdges ==
    LET max == 2^run.detail
    IN  {<<0, 0, run.top, 0, run.right, 0>>,
         <<max, 0, run.bottom, 0, run.right, max>>,
         <<0, max, run.top, max, run.left, 0>>,
         <<max, max, run.bottom, max, run.left, max>>}

\* C23: in the heightfield returned, a corner where a constrained row edge (top
\* or bottom) and a constrained column edge (left or right) meet holds the
\* column edge's value: right[0] at [0][0], right[N-1] at [N-1][0], left[0] at
\* [0][N-1], left[N-1] at [N-1][N-1]; the seeding had given the corner the row
\* edge's value, and the two are the same only if the constraints agree there.
C23_ColumnEdgeAtCorner ==
    run.pc = "done" =>
        \A c \in CornerEdges :
           (c[3] # Null /\ c[5] # Null) =>
              /\ Holds(Returned(c[1], c[2]), heap[c[5]].elems[c[6] + 1])
              /\ Holds(MapCell(c[1], c[2]), heap[c[3]].elems[c[4] + 1])
              /\ Returned(c[1], c[2]) = MapCell(c[1], c[2]) =>
                    heap[c[3]].elems[c[4] + 1] = heap[c[5]].elems[c[6] + 1]

\* A call has returned whose top and right disagree at index 0: [0][0] holds
\* right[0], and the seeding had put top[0] there.
C23_Witness ==
    /\ run.pc = "done" /\ run.top # Null /\ run.right # Null
    /\ heap[run.top].elems[1] # heap[run.right].elems[1]
    /\ Returned(0, 0) = ToFloat32(heap[run.right].elems[1])
    /\ MapCell(0, 0) = ToFloat32(heap[run.top].elems[1])
    /\ Returned(0, 0) # MapCell(0, 0)

\* The cell [r][q] of the stored chunk at key.
ChunkCell(key, r, q) == ReadElem(heap, chunkHeights[key][r + 1], q)

\* The store holds the first neighbourhood and nothing else.
FirstNeighbourhood == Cardinality(DOMAIN chunkHeights) <= 9

\* Two constraints passed to a call agree where a and b name their cells:
\* nothing to agree on unless both are given.
AgreeAt(a, ai, b, bi) == (a.given /\ b.given) => a.elems[ai + 1] = b.elems[bi + 1]

\* C24: from an empty store one call of generateNeighboringChunks(cx, cy)
\* produces the 9 chunks around (cx, cy), and their 12 shared borders agree at
\* every index, the ends included: row 0 of (x, y) is the last row of (x, y + 1),
\* column 0 of (x, y) the last column of (x + 1, y); at each of the 4 vertices
\* where four chunks meet the four corner heights are equal; and no chunk of it
\* is generated with two constraints that disagree at the corner they share.
C24_SeamlessFirstNeighbourhood ==
    /\ (todo = <<>> /\ Cardinality(DOMAIN chunkHeights) = 9) =>
          LET cx == frame.centre[1]
              cy == frame.centre[2]
              max == 2^ChunkDetail
          IN  /\ DOMAIN chunkHeights = ((cx - 1)..(cx + 1)) \X ((cy - 1)..(cy + 1))
              /\ \A x \in (cx - 1)..(cx + 1), y \in (cy - 1)..cy :
                    \A i \in 0..max : ChunkCell(<<x, y>>, 0, i) = ChunkCell(<<x, y + 1>>, max, i)
              /\ \A x \in (cx - 1)..cx, y \in (cy - 1)..(cy + 1) :
                    \A i \in 0..max : ChunkCell(<<x, y>>, i, 0) = ChunkCell(<<x + 1, y>>, i, max)
              /\ \A x \in (cx - 1)..cx, y \in (cy - 1)..cy :
                    /\ ChunkCell(<<x, y>>, 0, 0) = ChunkCell(<<x, y + 1>>, max, 0)
                    /\ ChunkCell(<<x, y>>, 0, 0) = ChunkCell(<<x + 1, y>>, 0, max)
                    /\ ChunkCell(<<x, y>>, 0, 0) = ChunkCell(<<x + 1, y + 1>>, max, max)
    /\ (FirstNeighbourhood /\ last.invoked) =>
          /\ AgreeAt(last.passed.top, 0, last.passed.right, 0)
          /\ AgreeAt(last.passed.top, 2^ChunkDetail, last.passed.left, 0)
          /\ AgreeAt(last.passed.bottom, 0, last.passed.right, 2^ChunkDetail)
          /\ AgreeAt(last.passed.bottom, 2^ChunkDetail, last.passed.left, 2^ChunkDetail)

\* The first neighbourhood is complete; its last chunk was generated with two
\* constraints, and not all chunks are alike.
C24_Witness ==
    /\ todo = <<>> /\ Cardinality(DOMAIN chunkHeights) = 9
    /\ last.invoked
    /\ Cardinality({e \in {last.passed.top, last.passed.bottom,
                           last.passed.left, last.passed.right} : e.given}) = 2
    /\ \E k \in DOMAIN chunkHeights :
          \E r \in 0..(2^ChunkDetail), q \in 0..(2^ChunkDetail) :
             ChunkCell(k, r, q) # ChunkCell(frame.centre, r, q)

\* The index pairs of places that are not cells of the followed call's grid.
OutsideGrid(places) == places \ InsideGrid(places)

\* C25: for every detail >= 1 the row index of every grid access of square,
\* diamond and the median filter lies in 0..N-1, so no access dereferences a
\* missing row and nothing throws; the only accesses outside the grid are reads
\* of the diamond step, for a cell of the first column at the column index
\* -sz/2 and for a cell of the last column at N-1+sz/2, and such a read yields
\* undefined, which average drops.
C25_NoThrowingIndex ==
    /\ [](run.pc # "idle" =>
            /\ run.pc # "threw"
            /\ \A p \in Used : p[1] \in 0..(2^run.detail)
            /\ OutsideGrid(run.writes) = {})
    /\ [][run.pc \in {"square", "filter", "force"} =>
            OutsideGrid(run'.reads) = OutsideGrid(run.reads)]_vars
    /\ [][run.pc = "diamond" =>
            LET x == run.cells[run.k][1]
                y == run.cells[run.k][2]
                max == 2^run.detail
                half == run.sz \div 2
                new == OutsideGrid(run'.reads) \ OutsideGrid(run.reads)
            IN  /\ new \subseteq
                      (IF y = 0 THEN {<<x, 0 - half>>} ELSE {})
                      \cup (IF y = max THEN {<<x, max + half>>} ELSE {})
                /\ \A p \in new :
                      /\ Get(run.st.map, p[1], p[2]) = Undefined
                      /\ filterUndefined(<<Get(run.st.map, p[1], p[2])>>) = <<>>
                /\ (ConstraintsAt(x, y) = {} /\ y = 0) => <<x, 0 - half>> \in run'.reads
                /\ (ConstraintsAt(x, y) = {} /\ y = max) => <<x, max + half>> \in run'.reads]_vars

\* A call with detail 2 has returned after reads outside the grid at both
\* levels, in the first and in the last column.
C25_Witness ==
    /\ run.pc = "done" /\ run.detail = 2
    /\ {<<2, 0 - 2>>, <<2, 6>>, <<1, 0 - 1>>, <<3, 5>>} \subseteq run.reads

\* The chunks the scene holds a mesh for.
MeshKeys == {meshes[i].key : i \in 1..Len(meshes)}

\* C26: the terrain meshes of the scene correspond one to one to the entries
\* of the store: a mesh for (x, y) is added once, by the call that stores
\* (x, y) and after it has stored it, at (x * SQUARE_SIZE, -100, y *
\* SQUARE_SIZE); a call for a chunk the store holds, as every call of a tick
\* over a generated neighbourhood is, adds no mesh.
C26_OneMeshPerChunk ==
    /\ [](/\ MeshKeys = DOMAIN chunkHeights
          /\ Len(meshes) = Cardinality(DOMAIN chunkHeights)
          /\ \A i \in 1..Len(meshes) :
                meshes[i].position =
                   <<meshes[i].key[1] * SQUARE_SIZE, 0 - 100, meshes[i].key[2] * SQUARE_SIZE>>)
    /\ [][last'.n # last.n =>
            IF last'.existed \/ last'.threw
            THEN meshes' = meshes /\ chunkHeights' = chunkHeights
            ELSE /\ Len(meshes') = Len(meshes) + 1
                 /\ SubSeq(meshes', 1, Len(meshes)) = meshes
                 /\ meshes'[Len(meshes')].key = <<last'.x, last'.y>>
                 /\ <<last'.x, last'.y>> \notin DOMAIN chunkHeights
                 /\ <<last'.x, last'.y>> \in DOMAIN chunkHeights']_vars

\* Two ticks over the same chunk have run: the second found all 9 chunks
\* stored, and the scene holds 9 meshes.
C26_Witness ==
    /\ frame.n = 2 /\ todo = <<>> /\ last.n = 20 /\ last.existed
    /\ Len(meshes) = 9
    /\ Cardinality(DOMAIN chunkHeights) = 9
    /\ \E i \in 1..9 : meshes[i].position = <<0 - SQUARE_SIZE, 0 - 100, SQUARE_SIZE>>

\* C27: in every interleaving of frames with the two load callbacks, a frame
\* that runs before the callback that assigns AIRCRAFT requests no chunk, so
\* the store, the scene and the call record stay empty until that callback has
\* run; a frame that runs after it requests the neighbourhood of the chunk
\* the aircraft is over, and the first call of the first such frame stores a
\* chunk.
C27_TerrainGatedOnLoad ==
    /\ [](AIRCRAFT # "loaded" =>
            /\ chunkHeights = <<>> /\ meshes = <<>> /\ todo = <<>>
            /\ last.n = 0 /\ frame.centre = <<>>)
    /\ [][frame'.n # frame.n =>
            IF AIRCRAFT = "loaded"
            THEN /\ todo' # <<>>
                 /\ frame'.centre \in DOMAIN chunkHeights \/ Head(todo') = frame'.centre
            ELSE todo' = <<>> /\ chunkHeights' = <<>>]_vars
    /\ [][(last'.n # last.n /\ chunkHeights = <<>>) =>
            /\ AIRCRAFT = "loaded"
            /\ DOMAIN chunkHeights' = {frame.centre}]_vars
    /\ [][AIRCRAFT' # AIRCRAFT => UNCHANGED <<chunkHeights, meshes, todo, frame, last>>]_vars

\* Two frames have run and only one of them made calls: the other ran before
\* AIRCRAFT was assigned, and the first frame after it generated terrain.
C27_Witness ==
    /\ frame.n = 2 /\ AIRCRAFT = "loaded" /\ todo = <<>>
    /\ last.n = Len(generateNeighboringChunks(0, 0))
    /\ Cardinality(DOMAIN chunkHeights) = 9
    /\ frame.centre \in DOMAIN chunkHeights

\* The constraints of the latest addTerrainChunk call that were not null.
GivenEdges ==
    {e \in {last.passed.top, last.passed.bottom, last.passed.left, last.passed.right} : e.given}

Lattice(sz) ==
    {<<i * sz, j * sz>> : i \in 0..((2^run.detail) \div sz), j \in 0..((2^run.detail) \div sz)}

\* The cells the running loop has assigned so far.
LoopAssigned == {run.cells[j] : j \in 1..(run.k - 1)}

\* C29: every cell inside the grid that the square step of level sz reads was
\* assigned by the corner seeding or at a level above sz; every cell inside the
\* grid that the diamond step of level sz reads was assigned by these or by
\* the square step of level sz; no cell the diamond step reads is a cell the
\* diamond loop of the level assigns, before or after it, so each diamond
\* cell's average is the same in whatever order the loop visits the cells.
C29_WriteBeforeRead ==
    /\ [](run.pc = "square" => run.writes = Lattice(run.sz) \cup LoopAssigned)
    /\ [](run.pc = "diamond" =>
            run.writes = Lattice(run.sz) \cup Centres(run.sz) \cup LoopAssigned)
    /\ [][run.pc = "square" =>
            LET x == run.cells[run.k][1]
                y == run.cells[run.k][2]
            IN  /\ DiagonalPlaces(x, y, run.sz \div 2) \subseteq run'.reads
                /\ InsideGrid(run'.reads \ run.reads) \subseteq Lattice(run.sz)
                /\ InsideGrid(DiagonalPlaces(x, y, run.sz \div 2)) \subseteq Lattice(run.sz)
                /\ Lattice(run.sz) \subseteq run.writes
                /\ Lattice(run.sz) \cap Places(run.cells) = {}]_vars
    /\ [][run.pc = "diamond" =>
            LET x == run.cells[run.k][1]
                y == run.cells[run.k][2]
                before == Lattice(run.sz) \cup Centres(run.sz)
            IN  /\ ConstraintsAt(x, y) = {} =>
                      InsideGrid(AxisPlaces(x, y, run.sz \div 2)) \subseteq run'.reads
                /\ InsideGrid(run'.reads \ run.reads) \subseteq before
                /\ InsideGrid(AxisPlaces(x, y, run.sz \div 2)) \subseteq before
                /\ before \subseteq run.writes
                /\ before \cap Places(run.cells) = {}
                /\ \A p \in before : run'.st.map[p[1] + 1][p[2] + 1] = MapCell(p[1], p[2])]_vars

\* The diamond loop of the level sz = 2 of an unconstrained call with detail 2
\* is at its last cell: every other cell of the grid is assigned, and the cell
\* has an assigned diamond cell of this level next to it at distance 1.
C29_Witness ==
    /\ run.pc = "diamond" /\ run.detail = 2 /\ run.sz = 2 /\ run.k = Len(run.cells)
    /\ run.top = Null /\ run.bottom = Null /\ run.left = Null /\ run.right = Null
    /\ Cardinality(run.writes) = 24
    /\ run.cells[run.k] \notin run.writes
    /\ InsideGrid(AxisPlaces(run.cells[run.k][1], run.cells[run.k][2], 1)) \subseteq run.writes
    /\ \E p \in LoopAssigned : p[2] = run.cells[run.k][2] - 1 \/ p[1] = run.cells[run.k][1] - 1

====
